---- MODULE Spec2Model ----
(***************************************************************************)
(* A model of the SmashLang runtime (src/src/runtime.c): the tagged value  *)
(* representation and its deep clone, the array and object containers on   *)
(* an explicit heap, the promise state machine with its single             *)
(* continuation slot, and the thread-backed timer.                         *)
(***************************************************************************)
EXTENDS Integers, Sequences, FiniteSets, TLC

VARIABLES
    promises,   \* the SmashPromise structs, indexed by promise id
    chain,      \* the PromiseChainData blocks malloc'ed by smash_promise_then
    calls,      \* log of the handler invocations (data.function calls)
    ub,         \* TRUE once a step has read or freed a freed block
    regs,       \* history: one record per smash_promise_then call
    late,       \* history: a resolve/reject call found its promise settled
    direct,     \* history: the promises the caller itself settled
    timer,      \* the TimerData block handed to the timer worker thread
    pc,         \* where each thread stands
    op,         \* each thread's call in progress (its arguments and locals)
    tcall,      \* history: the arguments of the smash_set_timeout call
    sleepPromise, \* the promise smash_sleep returned (0: none)
    heap,       \* the malloc'ed SmashValue structs, indexed by address
    held,       \* the addresses of the Values the caller holds
    cloned,     \* history: the clone the caller's last step made, if any
    arr,        \* the array of SpecArray and the capacity it was created with
    pushed,     \* history: the pointers pushed onto that array, in order
    got,        \* history: the last smash_array_get call on that array
    record,     \* the object of SpecObject, by content
    sets,       \* history: the smash_object_set calls made on it, in order
    fetched,    \* history: the smash_fetch calls made and the promises returned
    rx,         \* the regex call in progress: arguments, compiled regex, loop position
    truth,      \* the last truthiness call: its operation, argument and result
    res         \* the simple_regex_match call on a long text: result buffer and loop position

promiseVars == <<promises, chain, calls, ub, regs, late, direct>>

timerVars == <<timer, pc, op, tcall, sleepPromise>>

heapVars == <<heap, held, cloned>>

arrayVars == <<arr, pushed, got>>

objectVars == <<record, sets>>

fetchVars == <<fetched>>

regexVars == <<rx>>

truthVars == <<truth>>

resultVars == <<res>>

\* The variables no promise or timer operation touches.
otherVars == <<heapVars, arrayVars, objectVars, fetchVars, regexVars, truthVars, resultVars>>

\* The variables no operation of SpecArray touches.
nonArrayVars == <<promiseVars, timerVars, objectVars, fetchVars, regexVars, truthVars, resultVars>>

\* The variables no operation of SpecObject touches.
nonObjectVars == <<promiseVars, timerVars, heapVars, arrayVars, fetchVars, regexVars, truthVars, resultVars>>

\* The variables no operation of SpecHeap touches.
nonHeapVars == <<promiseVars, timerVars, arrayVars, objectVars, fetchVars, regexVars, truthVars, resultVars>>

\* The variables no regex operation touches.
nonRegexVars == <<promiseVars, timerVars, heapVars, arrayVars, objectVars, fetchVars, truthVars, resultVars>>

\* The variables no truthiness operation touches.
nonTruthVars == <<promiseVars, timerVars, heapVars, arrayVars, objectVars, fetchVars, regexVars, resultVars>>

\* The variables no operation of SpecResult touches.
nonResultVars == <<promiseVars, timerVars, heapVars, arrayVars, objectVars, fetchVars, regexVars, truthVars>>

vars == <<promiseVars, timerVars, heapVars, arrayVars, objectVars, fetchVars, regexVars, truthVars, resultVars>>

-----------------------------------------------------------------------------
(* Bounds of the model.                                                    *)

\* Promises in all: the one the caller created and those then/catch return.
MaxPromises == 3

\* The number of smash_promise_then calls the caller makes beside a timer.
MaxThens == 1

-----------------------------------------------------------------------------
(* Values: struct SmashValue, by content.                                  *)

\* The C null pointer (a SmashValue* that points at nothing).
NULL == [type |-> "NULLPTR"]

\* The content of an element slot that malloc returned and nobody wrote.
Uninit == [type |-> "UNINIT"]

smash_value_create_null == [type |-> "NULL"]

Undefined == [type |-> "UNDEFINED"]

smash_value_create_boolean(val) == [type |-> "BOOLEAN", boolean |-> val]

smash_value_create_number(num) == [type |-> "NUMBER", number |-> num]

smash_value_create_string(str) == [type |-> "STRING", string |-> str]

smash_value_create_array(initial_capacity) ==
    LET capacity == IF initial_capacity > 0 THEN initial_capacity ELSE 4
    IN  [type |-> "ARRAY", size |-> 0, capacity |-> capacity,
         elements |-> [i \in 1..capacity |-> Uninit]]

smash_value_create_object == [type |-> "OBJECT", properties |-> <<>>]

\* A Function value. fn names the native callback; reg and role tell which
\* smash_promise_then call the caller made this function value for.
smash_value_create_function(fn, reg, role) ==
    [type |-> "FUNCTION", function |-> fn, reg |-> reg, role |-> role]

PromiseValue(id) == [type |-> "PROMISE", promise |-> id]

RECURSIVE smash_value_clone(_)
smash_value_clone(value) ==
    IF value = NULL THEN smash_value_create_null
    ELSE CASE value.type = "NULL" -> smash_value_create_null
           [] value.type = "BOOLEAN" -> smash_value_create_boolean(value.boolean)
           [] value.type = "NUMBER" -> smash_value_create_number(value.number)
           [] value.type = "STRING" -> smash_value_create_string(value.string)
           [] value.type = "ARRAY" ->
                \* the element slots are written, the size field is not
                LET new_array == smash_value_create_array(value.size)
                IN  [new_array EXCEPT !.elements =
                        [i \in 1..new_array.capacity |->
                            IF i <= value.size
                            THEN smash_value_clone(value.elements[i])
                            ELSE Uninit]]
           [] value.type = "OBJECT" -> smash_value_create_null
           [] OTHER -> smash_value_create_null

\* Structural equality of two values: same tag, same payload, same array
\* length and elements, same object keys and values.
RECURSIVE StructEq(_, _)
StructEq(a, b) ==
    /\ a.type = b.type
    /\ CASE a.type = "BOOLEAN" -> a.boolean = b.boolean
         [] a.type = "NUMBER" -> a.number = b.number
         [] a.type = "STRING" -> a.string = b.string
         [] a.type = "ARRAY" ->
              /\ a.size = b.size
              /\ \A i \in 1..a.size : StructEq(a.elements[i], b.elements[i])
         [] a.type = "OBJECT" ->
              /\ Len(a.properties) = Len(b.properties)
              /\ \A i \in 1..Len(a.properties) :
                    /\ a.properties[i].key = b.properties[i].key
                    /\ StructEq(a.properties[i].value, b.properties[i].value)
         [] a.type = "FUNCTION" -> a.function = b.function
         [] a.type = "PROMISE" -> a.promise = b.promise
         [] OTHER -> TRUE

\* An array value holding the given elements, as create_array(0) and pushes
\* leave it (capacity 4 while it holds at most 4 elements).
ArrayOf(elems) ==
    [type |-> "ARRAY", size |-> Len(elems), capacity |-> 4,
     elements |-> [i \in 1..4 |-> IF i <= Len(elems) THEN elems[i] ELSE Uninit]]

\* The index of the property named property in obj, 0 when there is none.
PropertyIndex(obj, property) ==
    LET found == {i \in 1..Len(obj.properties) : obj.properties[i].key = property}
    IN  IF found = {} THEN 0 ELSE CHOOSE i \in found : \A j \in found : i <= j

\* smash_object_set, by content: the object after the call.
smash_object_set(obj, property, value) ==
    IF obj = NULL \/ obj.type # "OBJECT" \/ value = NULL THEN obj
    ELSE LET value_copy == smash_value_clone(value)
             i == PropertyIndex(obj, property)
         IN  IF i # 0
             THEN [obj EXCEPT !.properties[i].value = value_copy]
             ELSE [obj EXCEPT !.properties =
                      Append(@, [key |-> property, value |-> value_copy])]

smash_object_get(obj, property) ==
    IF obj = NULL \/ obj.type # "OBJECT" THEN smash_value_create_null
    ELSE LET i == PropertyIndex(obj, property)
         IN  IF i # 0 THEN smash_value_clone(obj.properties[i].value)
             ELSE smash_value_create_null

-----------------------------------------------------------------------------
(* Native callbacks (SmashFunction) the caller passes as handlers.         *)

\* The callbacks the caller uses as fulfilment and as rejection handlers.
FunctionNames(role) == IF role = "on_fulfilled" THEN {"add_one"} ELSE {"wrap"}

\* What the native callback fn returns for the argument list args: add_one is
\* x => x + 1, wrap returns a fresh one-element array, cb returns 42.
Apply(fn, args) ==
    CASE fn = "add_one" ->
            IF Len(args) > 0 /\ args[1].type = "NUMBER"
            THEN smash_value_create_number(args[1].number + 1)
            ELSE smash_value_create_null
      [] fn = "wrap" -> ArrayOf(<<smash_value_create_number(1)>>)
      [] fn = "cb" -> smash_value_create_number(42)
      [] OTHER -> smash_value_create_null

IsFunction(v) == v # NULL /\ v.type = "FUNCTION"

\* data.function(NULL, argc, args): the invocation is logged.
LogCall(st, handler, args) ==
    [st EXCEPT !.calls = Append(@, [handler |-> handler, args |-> args])]

-----------------------------------------------------------------------------
(* The promise engine. st is the record [promises, chain, calls, ub,       *)
(* stale]: stale tells what a read of a freed PromiseChainData block does   *)
(* in this step, return the block's old content (TRUE) or trap (FALSE).     *)

NewPromise ==
    [status |-> "PENDING", result |-> NULL, on_fulfill |-> "NULL",
     on_reject |-> "NULL", callback_data |-> 0, nwrites |-> 0]

smash_promise_create(st) == [st EXCEPT !.promises = Append(@, NewPromise)]

RECURSIVE smash_promise_resolve(_, _, _)
RECURSIVE smash_promise_reject(_, _, _)
RECURSIVE promise_chain_fulfill(_, _, _)
RECURSIVE promise_chain_reject(_, _, _)

\* free(chain_data)
FreeChainData(st, data) ==
    IF st.chain[data].freed
    THEN [st EXCEPT !.ub = TRUE]
    ELSE [st EXCEPT !.chain[data].freed = TRUE]

promise_chain_fulfill(st, value, data) ==
    IF data = 0 THEN st
    ELSE IF st.chain[data].freed /\ ~st.stale THEN [st EXCEPT !.ub = TRUE]
    ELSE LET next_promise == st.chain[data].next_promise
             on_fulfilled == st.chain[data].handler
         IN  IF IsFunction(on_fulfilled)
             THEN LET result == Apply(on_fulfilled.function, <<value>>)
                      st1 == LogCall(st, on_fulfilled, <<value>>)
                  IN  FreeChainData(smash_promise_resolve(st1, next_promise, result), data)
             ELSE FreeChainData(smash_promise_resolve(st, next_promise, value), data)

promise_chain_reject(st, reason, data) ==
    IF data = 0 THEN st
    ELSE IF st.chain[data].freed /\ ~st.stale THEN [st EXCEPT !.ub = TRUE]
    ELSE LET next_promise == st.chain[data].next_promise
             on_rejected == st.chain[data].handler
         IN  IF IsFunction(on_rejected)
             THEN LET result == Apply(on_rejected.function, <<reason>>)
                      st1 == LogCall(st, on_rejected, <<reason>>)
                  IN  FreeChainData(smash_promise_resolve(st1, next_promise, result), data)
             ELSE FreeChainData(smash_promise_reject(st, next_promise, reason), data)

\* Mutant of smash_promise_resolve: the "already settled" test is missing.
resolve_without_guard(st, promise_value, value) ==
    IF promise_value \notin DOMAIN st.promises THEN st
    ELSE LET st1 == [st EXCEPT !.promises[promise_value].status = "FULFILLED",
                               !.promises[promise_value].result = smash_value_clone(value),
                               !.promises[promise_value].nwrites = @ + 1]
         IN  IF st1.promises[promise_value].on_fulfill # "NULL"
             THEN promise_chain_fulfill(st1, st1.promises[promise_value].result,
                                        st1.promises[promise_value].callback_data)
             ELSE st1

smash_promise_resolve(st, promise_value, value) ==
    IF promise_value \notin DOMAIN st.promises THEN st
    ELSE IF st.promises[promise_value].status # "PENDING" THEN st
    ELSE LET st1 == [st EXCEPT !.promises[promise_value].status = "FULFILLED",
                               !.promises[promise_value].result = smash_value_clone(value),
                               !.promises[promise_value].nwrites = @ + 1]
         IN  IF st1.promises[promise_value].on_fulfill # "NULL"
             THEN promise_chain_fulfill(st1, st1.promises[promise_value].result,
                                        st1.promises[promise_value].callback_data)
             ELSE st1

\* Mutant of smash_promise_reject: the "already settled" test is missing.
reject_without_guard(st, promise_value, reason) ==
    IF promise_value \notin DOMAIN st.promises THEN st
    ELSE LET st1 == [st EXCEPT !.promises[promise_value].status = "REJECTED",
                               !.promises[promise_value].result = smash_value_clone(reason),
                               !.promises[promise_value].nwrites = @ + 1]
         IN  IF st1.promises[promise_value].on_reject # "NULL"
             THEN promise_chain_reject(st1, st1.promises[promise_value].result,
                                       st1.promises[promise_value].callback_data)
             ELSE st1

smash_promise_reject(st, promise_value, reason) ==
    IF promise_value \notin DOMAIN st.promises THEN st
    ELSE IF st.promises[promise_value].status # "PENDING" THEN st
    ELSE LET st1 == [st EXCEPT !.promises[promise_value].status = "REJECTED",
                               !.promises[promise_value].result = smash_value_clone(reason),
                               !.promises[promise_value].nwrites = @ + 1]
         IN  IF st1.promises[promise_value].on_reject # "NULL"
             THEN promise_chain_reject(st1, st1.promises[promise_value].result,
                                       st1.promises[promise_value].callback_data)
             ELSE st1

\* The new promise smash_promise_then returns is the one it creates first.
ThenResult(st) == Len(st.promises) + 1

\* Mutant of smash_promise_then: a pending promise that already holds
\* continuation data keeps it, the later call's data is not stored.
then_keeping_first_slot(st, promise_value, on_fulfilled, on_rejected) ==
    IF promise_value \notin DOMAIN st.promises THEN smash_promise_create(st)
    ELSE
    LET promise == st.promises[promise_value]
        st0 == smash_promise_create(st)
        next_promise == Len(st0.promises)
    IN  CASE promise.status = "PENDING" ->
               LET fulfill_data == Len(st0.chain) + 1
               IN  [st0 EXCEPT
                       !.chain = @ \o
                           << [next_promise |-> next_promise, handler |-> on_fulfilled,
                               freed |-> FALSE],
                              [next_promise |-> next_promise, handler |-> on_rejected,
                               freed |-> FALSE] >>,
                       !.promises[promise_value].on_fulfill = "promise_chain_fulfill",
                       !.promises[promise_value].on_reject = "promise_chain_reject",
                       !.promises[promise_value].callback_data =
                           IF @ = 0 THEN fulfill_data ELSE @]
          [] promise.status = "FULFILLED" ->
               IF IsFunction(on_fulfilled)
               THEN LET result == Apply(on_fulfilled.function, <<promise.result>>)
                    IN  smash_promise_resolve(LogCall(st0, on_fulfilled, <<promise.result>>),
                                              next_promise, result)
               ELSE smash_promise_resolve(st0, next_promise, promise.result)
          [] promise.status = "REJECTED" ->
               IF IsFunction(on_rejected)
               THEN LET result == Apply(on_rejected.function, <<promise.result>>)
                    IN  smash_promise_resolve(LogCall(st0, on_rejected, <<promise.result>>),
                                              next_promise, result)
               ELSE smash_promise_reject(st0, next_promise, promise.result)

smash_promise_then(st, promise_value, on_fulfilled, on_rejected) ==
    IF promise_value \notin DOMAIN st.promises THEN smash_promise_create(st)
    ELSE
    LET promise == st.promises[promise_value]
        st0 == smash_promise_create(st)
        next_promise == Len(st0.promises)
    IN  CASE promise.status = "PENDING" ->
               LET fulfill_data == Len(st0.chain) + 1
                   reject_data == Len(st0.chain) + 2
               IN  [st0 EXCEPT
                       !.chain = @ \o
                           << [next_promise |-> next_promise, handler |-> on_fulfilled,
                               freed |-> FALSE],
                              [next_promise |-> next_promise, handler |-> on_rejected,
                               freed |-> FALSE] >>,
                       !.promises[promise_value].on_fulfill = "promise_chain_fulfill",
                       !.promises[promise_value].on_reject = "promise_chain_reject",
                       !.promises[promise_value].callback_data = fulfill_data]
          [] promise.status = "FULFILLED" ->
               IF IsFunction(on_fulfilled)
               THEN LET result == Apply(on_fulfilled.function, <<promise.result>>)
                    IN  smash_promise_resolve(LogCall(st0, on_fulfilled, <<promise.result>>),
                                              next_promise, result)
               ELSE smash_promise_resolve(st0, next_promise, promise.result)
          [] promise.status = "REJECTED" ->
               IF IsFunction(on_rejected)
               THEN LET result == Apply(on_rejected.function, <<promise.result>>)
                    IN  smash_promise_resolve(LogCall(st0, on_rejected, <<promise.result>>),
                                              next_promise, result)
               ELSE smash_promise_reject(st0, next_promise, promise.result)

smash_promise_catch(st, promise_value, on_rejected) ==
    smash_promise_then(st, promise_value, NULL, on_rejected)

-----------------------------------------------------------------------------
(* Threads: the caller's thread and the timer worker thread.               *)

Threads == {"main", "timer"}

\* No TimerData block (no smash_set_timeout call made yet, or block freed).
NoTimer == [promise |-> 0]

\* No call in progress.
NoOp == [kind |-> "none"]

\* No array created yet.
NoArray == [array |-> 0]

\* The heap before any allocation.
EmptyHeap == [cells |-> <<>>, ub |-> FALSE]

-----------------------------------------------------------------------------
(* The caller's operations on promises, single thread (SpecPromise).       *)

EmptyState ==
    [promises |-> <<>>, chain |-> <<>>, calls |-> <<>>, ub |-> FALSE, stale |-> FALSE]

State ==
    [promises |-> promises, chain |-> chain, calls |-> calls, ub |-> ub,
     stale |-> FALSE]

Install(st) ==
    /\ promises' = st.promises
    /\ chain' = st.chain
    /\ calls' = st.calls
    /\ ub' = st.ub

\* Values the caller settles promises with.
Payloads ==
    { smash_value_create_number(5),
      ArrayOf(<<smash_value_create_number(1)>>) }

\* The handler arguments of the next smash_promise_then call: absent, or a
\* function value made for that call.
Handlers(role) ==
    {NULL} \cup { smash_value_create_function(fn, Len(regs) + 1, role) :
                     fn \in FunctionNames(role) }

InitPromise ==
    /\ promises = smash_promise_create(EmptyState).promises
    /\ chain = <<>>
    /\ calls = <<>>
    /\ ub = FALSE
    /\ regs = <<>>
    /\ late = FALSE
    /\ direct = {}
    /\ timer = NoTimer
    /\ pc = [t \in Threads |-> IF t = "main" THEN "idle" ELSE "none"]
    /\ op = [t \in Threads |-> NoOp]
    /\ tcall = NoOp
    /\ sleepPromise = 0
    /\ heap = EmptyHeap
    /\ held = {}
    /\ cloned = NoOp
    /\ arr = NoArray
    /\ pushed = <<>>
    /\ got = NoOp
    /\ record = smash_value_create_object
    /\ sets = <<>>
    /\ fetched = <<>>
    /\ rx = NoOp
    /\ truth = NoOp
    /\ res = NoOp

\* A resolve/reject call on an already settled promise, with another value.
LateCall(p, v) ==
    /\ promises[p].status # "PENDING"
    /\ promises[p].result # smash_value_clone(v)

Resolve ==
    \E p \in DOMAIN promises, v \in Payloads :
        /\ Install(smash_promise_resolve(State, p, v))
        /\ late' = (late \/ LateCall(p, v))
        /\ direct' = IF promises[p].status = "PENDING" THEN direct \cup {p} ELSE direct
        /\ UNCHANGED <<otherVars, regs, timerVars>>

Reject ==
    \E p \in DOMAIN promises, e \in Payloads :
        /\ Install(smash_promise_reject(State, p, e))
        /\ late' = (late \/ LateCall(p, e))
        /\ direct' = IF promises[p].status = "PENDING" THEN direct \cup {p} ELSE direct
        /\ UNCHANGED <<otherVars, regs, timerVars>>

Registration(p, f, r) ==
    [src |-> p, on_fulfilled |-> f, on_rejected |-> r,
     next |-> ThenResult(State),
     status |-> promises[p].status, payload |-> promises[p].result]

Then ==
    \E p \in DOMAIN promises, f \in Handlers("on_fulfilled"),
       r \in Handlers("on_rejected") :
        /\ Len(promises) < MaxPromises
        /\ Install(smash_promise_then(State, p, f, r))
        /\ regs' = Append(regs, Registration(p, f, r))
        /\ UNCHANGED <<otherVars, late, direct, timerVars>>

Catch ==
    \E p \in DOMAIN promises, r \in Handlers("on_rejected") :
        /\ Len(promises) < MaxPromises
        /\ Install(smash_promise_catch(State, p, r))
        /\ regs' = Append(regs, Registration(p, NULL, r))
        /\ UNCHANGED <<otherVars, late, direct, timerVars>>

NextPromise == Resolve \/ Reject \/ Then \/ Catch

SpecPromise == InitPromise /\ [][NextPromise]_vars

-----------------------------------------------------------------------------
(* The timer: smash_set_timeout, smash_sleep and the worker thread, with   *)
(* the caller's thread running beside it (SpecTimer). A call of resolve,    *)
(* reject or then is a sequence of steps, one per access to the promise.    *)

\* The error object of the failure paths: {message: "..."}.
ErrorObject(message) ==
    smash_object_set(smash_value_create_object, "message",
                     smash_value_create_string(message))

\* smash_set_timeout; created tells whether pthread_create succeeded. Gives
\* the promise engine state after the call, the TimerData block the worker
\* owns (NoTimer when no thread runs) and the promise returned.
smash_set_timeout(st, callback, delay_ms, argc, args, created) ==
    LET st0 == smash_promise_create(st)
        promise == Len(st0.promises)
        data == [promise |-> promise,
                 callback |-> IF callback # NULL THEN smash_value_clone(callback)
                              ELSE NULL,
                 delay_ms |-> delay_ms,
                 args |-> IF argc > 0
                          THEN [i \in 1..argc |-> smash_value_clone(args[i])]
                          ELSE <<>>,
                 num_args |-> IF argc > 0 THEN argc ELSE 0]
    IN  IF created
        THEN [st |-> st0, data |-> data, promise |-> promise]
        ELSE [st |-> smash_promise_reject(st0, promise,
                         ErrorObject("Failed to create timer thread")),
              data |-> NoTimer, promise |-> promise]

\* promise_resolver, the callback smash_sleep passes to smash_set_timeout.
promise_resolver(st, this_val, argc, args) ==
    IF this_val # NULL /\ this_val.type = "OBJECT"
    THEN LET promise == smash_object_get(this_val, "promise")
         IN  IF promise.type = "PROMISE"
             THEN IF argc > 0 /\ args[1] # NULL
                  THEN smash_promise_resolve(st, promise.promise, args[1])
                  ELSE smash_promise_resolve(st, promise.promise,
                                             smash_value_create_null)
             ELSE st
    ELSE st

\* smash_sleep: the promise it returns is the one it creates first; context
\* is the object it stores that promise in.
smash_sleep(st, ms, created) ==
    LET st0 == smash_promise_create(st)
        promise == Len(st0.promises)
        context == smash_object_set(smash_value_create_object, "promise",
                                    PromiseValue(promise))
        resolver == smash_value_create_function("promise_resolver", 0, "timer")
        r == smash_set_timeout(st0, resolver, ms, 0, <<>>, created)
    IN  [st |-> r.st, data |-> r.data, promise |-> promise, context |-> context]

\* The inputs of smash_set_timeout.
TimerCallbacks == {NULL, smash_value_create_function("cb", 0, "timer")}

TimerArgs == {<<>>, <<smash_value_create_number(7)>>}

Delays == {50}

\* Where a thread goes on when its resolve/reject call returns.
Return(t) == IF t = "main" THEN "idle" ELSE "cleanup"

InitTimer ==
    /\ promises = <<>>
    /\ chain = <<>>
    /\ calls = <<>>
    /\ ub = FALSE
    /\ regs = <<>>
    /\ late = FALSE
    /\ direct = {}
    /\ timer = NoTimer
    /\ pc = [t \in Threads |-> IF t = "main" THEN "idle" ELSE "none"]
    /\ op = [t \in Threads |-> NoOp]
    /\ tcall = NoOp
    /\ sleepPromise = 0
    /\ heap = EmptyHeap
    /\ held = {}
    /\ cloned = NoOp
    /\ arr = NoArray
    /\ pushed = <<>>
    /\ got = NoOp
    /\ record = smash_value_create_object
    /\ sets = <<>>
    /\ fetched = <<>>
    /\ rx = NoOp
    /\ truth = NoOp
    /\ res = NoOp

\* The caller calls smash_set_timeout.
SetTimeout ==
    \E callback \in TimerCallbacks, args \in TimerArgs, delay_ms \in Delays,
       created \in BOOLEAN :
        LET r == smash_set_timeout(State, callback, delay_ms, Len(args), args, created)
        IN  /\ pc["main"] = "idle" /\ tcall = NoOp
            /\ Install(r.st)
            /\ timer' = r.data
            /\ pc' = [pc EXCEPT !["timer"] = IF created THEN "sleep" ELSE "none"]
            /\ tcall' = [kind |-> "set_timeout", callback |-> callback,
                         args |-> args, delay_ms |-> delay_ms,
                         promise |-> r.promise, created |-> created]
            /\ UNCHANGED <<otherVars, regs, late, direct, op, sleepPromise>>

\* The caller calls smash_sleep.
Sleep ==
    \E ms \in Delays, created \in BOOLEAN :
        LET r == smash_sleep(State, ms, created)
        IN  /\ pc["main"] = "idle" /\ tcall = NoOp
            /\ Install(r.st)
            /\ timer' = r.data
            /\ pc' = [pc EXCEPT !["timer"] = IF created THEN "sleep" ELSE "none"]
            /\ tcall' = [kind |-> "sleep", delay_ms |-> ms, promise |-> r.promise,
                         created |-> created]
            /\ sleepPromise' = r.promise
            /\ UNCHANGED <<otherVars, regs, late, direct, op>>

\* timer_thread_func: nanosleep returns.
WorkerSleep ==
    /\ pc["timer"] = "sleep"
    /\ pc' = [pc EXCEPT !["timer"] = "run"]
    /\ UNCHANGED <<otherVars, promiseVars, timer, op, tcall, sleepPromise>>

\* timer_thread_func: the callback, if data->callback is a function, is
\* invoked; the worker then enters smash_promise_resolve(data->promise, ..).
WorkerRun ==
    /\ pc["timer"] = "run"
    /\ IF IsFunction(timer.callback)
       THEN LET value == smash_value_create_number(timer.delay_ms)
                args == IF timer.num_args > 0 THEN timer.args ELSE <<value>>
                st1 == LogCall(State, timer.callback, args)
                st2 == IF timer.callback.function = "promise_resolver"
                       THEN promise_resolver(st1, NULL, Len(args), args)
                       ELSE st1
                result == Apply(timer.callback.function, args)
            IN  /\ Install(st2)
                /\ op' = [op EXCEPT !["timer"] =
                             [kind |-> "resolve", promise |-> timer.promise,
                              value |-> result, frees |-> <<>>]]
       ELSE /\ op' = [op EXCEPT !["timer"] =
                         [kind |-> "resolve", promise |-> timer.promise,
                          value |-> smash_value_create_null, frees |-> <<>>]]
            /\ UNCHANGED <<promises, chain, calls, ub>>
    /\ pc' = [pc EXCEPT !["timer"] = "r_check"]
    /\ UNCHANGED <<otherVars, regs, late, direct, timer, tcall, sleepPromise>>

\* timer_thread_func: data->callback, data->args and data are freed.
WorkerCleanup ==
    /\ pc["timer"] = "cleanup"
    /\ pc' = [pc EXCEPT !["timer"] = "done"]
    /\ timer' = NoTimer
    /\ op' = [op EXCEPT !["timer"] = NoOp]
    /\ UNCHANGED <<otherVars, promiseVars, tcall, sleepPromise>>

\* The caller calls smash_promise_resolve or smash_promise_reject, once on a
\* promise (repeated calls are the subject of SpecPromise).
Settle ==
    \E p \in DOMAIN promises, kind \in {"resolve", "reject"}, v \in Payloads :
        /\ pc["main"] = "idle"
        /\ p \notin direct
        /\ op' = [op EXCEPT !["main"] = [kind |-> kind, promise |-> p, value |-> v,
                                         frees |-> <<>>]]
        /\ pc' = [pc EXCEPT !["main"] = "r_check"]
        /\ direct' = direct \cup {p}
        /\ UNCHANGED <<otherVars, promises, chain, calls, ub, regs, late, timer, tcall,
                       sleepPromise>>

\* Where a thread goes on when a resolve/reject call returns: to the
\* free(chain_data) of the chain callback that made the call, if one did
\* (frees holds the PromiseChainData blocks of the chain callbacks the thread
\* is in, the innermost last), else to the caller of the outermost call.
After(t, frees) == IF frees = <<>> THEN Return(t) ELSE "r_free"

\* resolve/reject: if (promise->status != PROMISE_PENDING) return;
SettleCheck(t) ==
    /\ pc[t] = "r_check"
    /\ pc' = [pc EXCEPT ![t] = IF promises[op[t].promise].status # "PENDING"
                               THEN After(t, op[t].frees) ELSE "r_status"]
    /\ UNCHANGED <<otherVars, promiseVars, timer, op, tcall, sleepPromise>>

\* resolve/reject: promise->status = ...;
SettleStatus(t) ==
    /\ pc[t] = "r_status"
    /\ promises' = [promises EXCEPT
                       ![op[t].promise].status =
                           IF op[t].kind = "resolve" THEN "FULFILLED" ELSE "REJECTED",
                       ![op[t].promise].nwrites = @ + 1]
    /\ pc' = [pc EXCEPT ![t] = "r_result"]
    /\ UNCHANGED <<otherVars, chain, calls, ub, regs, late, direct, timer, op, tcall,
                   sleepPromise>>

\* resolve/reject: promise->result = smash_value_clone(value);
SettleResult(t) ==
    /\ pc[t] = "r_result"
    /\ promises' = [promises EXCEPT
                       ![op[t].promise].result = smash_value_clone(op[t].value)]
    /\ pc' = [pc EXCEPT ![t] = "r_callback"]
    /\ UNCHANGED <<otherVars, chain, calls, ub, regs, late, direct, timer, op, tcall,
                   sleepPromise>>

\* resolve/reject: if (promise->on_fulfill) ..., the test of the callback
\* pointer (on_reject in a reject call).
SettleCallback(t) ==
    LET promise == promises[op[t].promise]
        callback == IF op[t].kind = "resolve" THEN promise.on_fulfill
                    ELSE promise.on_reject
    IN  /\ pc[t] = "r_callback"
        /\ IF callback = "NULL"
           THEN /\ pc' = [pc EXCEPT ![t] = After(t, op[t].frees)]
                /\ op' = [op EXCEPT ![t] = IF op[t].frees = <<>> THEN NoOp ELSE @]
           ELSE /\ pc' = [pc EXCEPT ![t] = "r_args"]
                /\ op' = [op EXCEPT ![t] =
                             [kind |-> op[t].kind, promise |-> op[t].promise,
                              frees |-> op[t].frees, loaded |-> {},
                              value |-> NULL, data |-> 0]]
        /\ UNCHANGED <<otherVars, promiseVars, timer, tcall, sleepPromise>>

\* Where a thread goes on when an argument of the callback is loaded: to the
\* other load, or into the callback.
Loaded(t, argument) ==
    IF op[t].loaded \cup {argument} = {"result", "callback_data"} THEN "c_block"
    ELSE "r_args"

\* resolve/reject: the load of promise->result, the first argument of the
\* callback. The two arguments are loaded in either order.
SettleLoadResult(t) ==
    /\ pc[t] = "r_args"
    /\ "result" \notin op[t].loaded
    /\ op' = [op EXCEPT ![t].value = promises[op[t].promise].result,
                        ![t].loaded = @ \cup {"result"}]
    /\ pc' = [pc EXCEPT ![t] = Loaded(t, "result")]
    /\ UNCHANGED <<otherVars, promiseVars, timer, tcall, sleepPromise>>

\* resolve/reject: the load of promise->callback_data, the second argument.
SettleLoadData(t) ==
    /\ pc[t] = "r_args"
    /\ "callback_data" \notin op[t].loaded
    /\ op' = [op EXCEPT ![t].data = promises[op[t].promise].callback_data,
                        ![t].loaded = @ \cup {"callback_data"}]
    /\ pc' = [pc EXCEPT ![t] = Loaded(t, "callback_data")]
    /\ UNCHANGED <<otherVars, promiseVars, timer, tcall, sleepPromise>>

\* promise_chain_fulfill/promise_chain_reject: if (!chain_data) return; and
\* the reads of chain_data->next_promise and chain_data->handler. The read
\* of a freed block gives its old content (stale) or is a fault.
ChainBlock(t) ==
    \E stale \in BOOLEAN :
        LET data == op[t].data
        IN  /\ pc[t] = "c_block"
            /\ IF data = 0 \/ (chain[data].freed /\ ~stale)
               THEN /\ ub' = (ub \/ data # 0)
                    /\ pc' = [pc EXCEPT ![t] = After(t, op[t].frees)]
                    /\ op' = [op EXCEPT ![t] =
                                 IF op[t].frees = <<>> THEN NoOp
                                 ELSE [kind |-> op[t].kind, promise |-> op[t].promise,
                                       value |-> op[t].value, frees |-> op[t].frees]]
               ELSE /\ ub' = ub
                    /\ pc' = [pc EXCEPT ![t] = "c_call"]
                    /\ op' = [op EXCEPT ![t] =
                                 [kind |-> op[t].kind, value |-> op[t].value,
                                  data |-> data, frees |-> op[t].frees,
                                  next_promise |-> chain[data].next_promise,
                                  handler |-> chain[data].handler]]
            /\ UNCHANGED <<otherVars, promises, chain, calls, regs, late, direct, timer,
                           tcall, sleepPromise>>

\* promise_chain_fulfill/promise_chain_reject: the handler, if the block
\* holds one, is called with the value loaded, and the thread enters
\* smash_promise_resolve or smash_promise_reject on next_promise: the steps
\* of that call are steps of this thread like those of any other call, and
\* free(chain_data) follows its return.
ChainCall(t) ==
    LET handler == op[t].handler
    IN  /\ pc[t] = "c_call"
        /\ IF IsFunction(handler)
           THEN /\ calls' = LogCall(State, handler, <<op[t].value>>).calls
                /\ op' = [op EXCEPT ![t] =
                             [kind |-> "resolve", promise |-> op[t].next_promise,
                              value |-> Apply(handler.function, <<op[t].value>>),
                              frees |-> Append(op[t].frees, op[t].data)]]
           ELSE /\ calls' = calls
                /\ op' = [op EXCEPT ![t] =
                             [kind |-> op[t].kind, promise |-> op[t].next_promise,
                              value |-> op[t].value,
                              frees |-> Append(op[t].frees, op[t].data)]]
        /\ pc' = [pc EXCEPT ![t] = "r_check"]
        /\ UNCHANGED <<otherVars, promises, chain, ub, regs, late, direct, timer, tcall,
                       sleepPromise>>

\* promise_chain_fulfill/promise_chain_reject: free(chain_data), after the
\* call on next_promise has returned; the chain callback returns with it.
SettleFree(t) ==
    LET frees == op[t].frees
        data == frees[Len(frees)]
        rest == SubSeq(frees, 1, Len(frees) - 1)
    IN  /\ pc[t] = "r_free"
        /\ Install(FreeChainData(State, data))
        /\ pc' = [pc EXCEPT ![t] = After(t, rest)]
        /\ op' = [op EXCEPT ![t] = IF rest = <<>> THEN NoOp ELSE [@ EXCEPT !.frees = rest]]
        /\ UNCHANGED <<otherVars, regs, late, direct, timer, tcall, sleepPromise>>

\* The caller calls smash_promise_then: the new promise is created and the
\* source's status read (if (promise->status == PROMISE_PENDING)). For a
\* pending source the two PromiseChainData blocks are filled and the three
\* stores into the source promise follow, one step each; otherwise the
\* status is read again for each of the two other branches.
ThenBegin ==
    \E p \in DOMAIN promises, f \in Handlers("on_fulfilled"),
       r \in Handlers("on_rejected") :
        /\ pc["main"] = "idle"
        /\ Len(regs) < MaxThens
        /\ regs' = Append(regs, Registration(p, f, r))
        /\ promises' = smash_promise_create(State).promises
        /\ IF promises[p].status = "PENDING"
           THEN /\ chain' = chain \o
                       << [next_promise |-> Len(promises) + 1, handler |-> f,
                           freed |-> FALSE],
                          [next_promise |-> Len(promises) + 1, handler |-> r,
                           freed |-> FALSE] >>
                /\ op' = [op EXCEPT !["main"] =
                             [kind |-> "then", promise |-> p,
                              fulfill_data |-> Len(chain) + 1]]
                /\ pc' = [pc EXCEPT !["main"] = "t_on_fulfill"]
           ELSE /\ chain' = chain
                /\ op' = [op EXCEPT !["main"] =
                             [kind |-> "then", promise |-> p, on_fulfilled |-> f,
                              on_rejected |-> r, next_promise |-> Len(promises) + 1,
                              branch |-> "none"]]
                /\ pc' = [pc EXCEPT !["main"] = "t_fulfilled"]
        /\ UNCHANGED <<otherVars, calls, ub, late, direct, timer, tcall, sleepPromise>>

\* then: else if (promise->status == PROMISE_FULFILLED), the second read of
\* the status.
ThenFulfilled ==
    /\ pc["main"] = "t_fulfilled"
    /\ IF promises[op["main"].promise].status = "FULFILLED"
       THEN /\ pc' = [pc EXCEPT !["main"] = "t_result"]
            /\ op' = [op EXCEPT !["main"].branch = "FULFILLED"]
       ELSE /\ pc' = [pc EXCEPT !["main"] = "t_rejected"]
            /\ op' = op
    /\ UNCHANGED <<otherVars, promiseVars, timer, tcall, sleepPromise>>

\* then: else if (promise->status == PROMISE_REJECTED), the third read of
\* the status; when it fails too, no branch runs and the new promise is
\* returned as it was created.
ThenRejected ==
    /\ pc["main"] = "t_rejected"
    /\ IF promises[op["main"].promise].status = "REJECTED"
       THEN /\ pc' = [pc EXCEPT !["main"] = "t_result"]
            /\ op' = [op EXCEPT !["main"].branch = "REJECTED"]
       ELSE /\ pc' = [pc EXCEPT !["main"] = "idle"]
            /\ op' = [op EXCEPT !["main"] = NoOp]
    /\ UNCHANGED <<otherVars, promiseVars, timer, tcall, sleepPromise>>

\* then, in the branch of a settled source: promise->result is read, the
\* handler of the branch, if given, is called with it, and the new promise,
\* which no other thread knows yet, is settled.
ThenSettled ==
    LET call == op["main"]
        result == promises[call.promise].result
        handler == IF call.branch = "FULFILLED" THEN call.on_fulfilled
                   ELSE call.on_rejected
    IN  /\ pc["main"] = "t_result"
        /\ Install(IF IsFunction(handler)
                   THEN smash_promise_resolve(LogCall(State, handler, <<result>>),
                                              call.next_promise,
                                              Apply(handler.function, <<result>>))
                   ELSE IF call.branch = "FULFILLED"
                   THEN smash_promise_resolve(State, call.next_promise, result)
                   ELSE smash_promise_reject(State, call.next_promise, result))
        /\ pc' = [pc EXCEPT !["main"] = "idle"]
        /\ op' = [op EXCEPT !["main"] = NoOp]
        /\ UNCHANGED <<otherVars, regs, late, direct, timer, tcall, sleepPromise>>

\* then: promise->on_fulfill = promise_chain_fulfill;
ThenOnFulfill ==
    /\ pc["main"] = "t_on_fulfill"
    /\ promises' = [promises EXCEPT
                       ![op["main"].promise].on_fulfill = "promise_chain_fulfill"]
    /\ pc' = [pc EXCEPT !["main"] = "t_on_reject"]
    /\ UNCHANGED <<otherVars, chain, calls, ub, regs, late, direct, timer, op, tcall,
                   sleepPromise>>

\* then: promise->on_reject = promise_chain_reject;
ThenOnReject ==
    /\ pc["main"] = "t_on_reject"
    /\ promises' = [promises EXCEPT
                       ![op["main"].promise].on_reject = "promise_chain_reject"]
    /\ pc' = [pc EXCEPT !["main"] = "t_data"]
    /\ UNCHANGED <<otherVars, chain, calls, ub, regs, late, direct, timer, op, tcall,
                   sleepPromise>>

\* then: promise->callback_data = fulfill_data;
ThenData ==
    /\ pc["main"] = "t_data"
    /\ promises' = [promises EXCEPT
                       ![op["main"].promise].callback_data = op["main"].fulfill_data]
    /\ pc' = [pc EXCEPT !["main"] = "idle"]
    /\ op' = [op EXCEPT !["main"] = NoOp]
    /\ UNCHANGED <<otherVars, chain, calls, ub, regs, late, direct, timer, tcall,
                   sleepPromise>>

\* The steps of the timer worker thread.
WorkerNext ==
    \/ WorkerSleep
    \/ WorkerRun
    \/ SettleCheck("timer")
    \/ SettleStatus("timer")
    \/ SettleResult("timer")
    \/ SettleCallback("timer")
    \/ SettleLoadResult("timer")
    \/ SettleLoadData("timer")
    \/ ChainBlock("timer")
    \/ ChainCall("timer")
    \/ SettleFree("timer")
    \/ WorkerCleanup

\* The steps of the caller's thread.
MainNext ==
    \/ SetTimeout
    \/ Sleep
    \/ Settle
    \/ SettleCheck("main")
    \/ SettleStatus("main")
    \/ SettleResult("main")
    \/ SettleCallback("main")
    \/ SettleLoadResult("main")
    \/ SettleLoadData("main")
    \/ ChainBlock("main")
    \/ ChainCall("main")
    \/ SettleFree("main")
    \/ ThenBegin
    \/ ThenFulfilled
    \/ ThenRejected
    \/ ThenSettled
    \/ ThenOnFulfill
    \/ ThenOnReject
    \/ ThenData

NextTimer == MainNext \/ WorkerNext

SpecTimer == InitTimer /\ [][NextTimer]_vars

\* The steps that carry on a call the caller has begun.
MainCallNext ==
    \/ SettleCheck("main")
    \/ SettleStatus("main")
    \/ SettleResult("main")
    \/ SettleCallback("main")
    \/ SettleLoadResult("main")
    \/ SettleLoadData("main")
    \/ ChainBlock("main")
    \/ ChainCall("main")
    \/ SettleFree("main")
    \/ ThenFulfilled
    \/ ThenRejected
    \/ ThenSettled
    \/ ThenOnFulfill
    \/ ThenOnReject
    \/ ThenData

\* The worker is a detached thread the scheduler keeps running and no step
\* of either thread waits for the other: the worker's steps are eventually
\* taken and a call the caller has begun runs to its return.
FairSpecTimer == SpecTimer /\ WF_vars(WorkerNext) /\ WF_vars(MainCallNext)

-----------------------------------------------------------------------------
(* Values as allocations (SpecHeap). A cell of the heap is one malloc'ed   *)
(* SmashValue; an array cell holds the addresses of its elements, an object *)
(* cell the addresses of its property values. Address 0 is no allocation    *)
(* (a NULL pointer or a slot never written).                                *)

\* The largest number of elements the caller pushes into one array.
MaxLen == 2

\* The largest number of cells the heap holds.
MaxHeap == 4

\* malloc of one SmashValue holding v; the new address is Len(h.cells) + 1.
Alloc(h, v) == [h EXCEPT !.cells = Append(@, [live |-> TRUE, v |-> v])]

\* A block that was freed: what it holds is no longer defined.
Freed == [live |-> FALSE, v |-> Uninit]

\* The cell at an address that may be read: allocated and not freed.
Live(h, a) == a \in DOMAIN h.cells /\ h.cells[a].live

\* The addresses an array or object cell stores (array slots below size).
Stored(h, a) ==
    LET v == h.cells[a].v
    IN  IF v.type = "ARRAY" THEN {v.elements[i] : i \in 1..v.size} \ {0}
        ELSE IF v.type = "OBJECT"
        THEN {v.properties[i].value : i \in DOMAIN v.properties}
        ELSE {}

\* The allocations reachable from a, a included.
RECURSIVE Reach(_, _)
Reach(h, a) ==
    IF a = 0 THEN {} ELSE {a} \cup UNION {Reach(h, e) : e \in Stored(h, a)}

\* The Value at address a, by content. A slot of an array below its size
\* was written by a push: address 0 there is a NULL element; above the size
\* it is a slot malloc or realloc left unwritten.
RECURSIVE Deref(_, _)
Deref(h, a) ==
    IF a = 0 THEN NULL
    ELSE LET v == h.cells[a].v
         IN  IF v.type = "ARRAY"
             THEN [v EXCEPT !.elements =
                      [i \in 1..v.capacity |->
                          IF v.elements[i] = 0
                          THEN IF i <= v.size THEN NULL ELSE Uninit
                          ELSE Deref(h, v.elements[i])]]
             ELSE IF v.type = "OBJECT"
             THEN [v EXCEPT !.properties =
                      [i \in DOMAIN v.properties |->
                          [key |-> v.properties[i].key,
                           value |-> Deref(h, v.properties[i].value)]]]
             ELSE v

\* A Value given by content built in fresh cells: the heap after it and the
\* address of the Value (the last cell allocated).
RECURSIVE Store(_, _)
RECURSIVE StoreElements(_, _, _)
RECURSIVE StoreProperties(_, _, _)
StoreElements(h, elements, done) ==
    IF Len(done) = Len(elements) THEN [h |-> h, a |-> done]
    ELSE LET e == elements[Len(done) + 1]
         IN  IF e = Uninit \/ e = NULL
             THEN StoreElements(h, elements, Append(done, 0))
             ELSE LET r == Store(h, e)
                  IN  StoreElements(r.h, elements, Append(done, r.a))

StoreProperties(h, properties, done) ==
    IF Len(done) = Len(properties) THEN [h |-> h, a |-> done]
    ELSE LET q == properties[Len(done) + 1]
             r == Store(h, q.value)
         IN  StoreProperties(r.h, properties,
                             Append(done, [key |-> q.key, value |-> r.a]))

Store(h, v) ==
    LET r == IF v.type = "ARRAY" THEN StoreElements(h, v.elements, <<>>)
             ELSE IF v.type = "OBJECT" THEN StoreProperties(h, v.properties, <<>>)
             ELSE [h |-> h, a |-> <<>>]
        cell == IF v.type = "ARRAY" THEN [v EXCEPT !.elements = r.a]
                ELSE IF v.type = "OBJECT" THEN [v EXCEPT !.properties = r.a]
                ELSE v
        h1 == Alloc(r.h, cell)
    IN  [h |-> h1, a |-> Len(h1.cells)]

\* smash_value_clone reads the type tag of value and, for an array, its
\* size and the elements below it, each cloned in turn; of an object it
\* reads the tag only. One of these reads is of a freed block.
RECURSIVE CloneReadsFreed(_, _)
CloneReadsFreed(h, value) ==
    /\ value # 0
    /\ \/ ~Live(h, value)
       \/ /\ h.cells[value].v.type = "ARRAY"
          /\ \E i \in 1..h.cells[value].v.size :
                 CloneReadsFreed(h, h.cells[value].v.elements[i])

\* smash_value_clone on the heap: the copy is built from what the clone by
\* content gives, in cells of its own.
smash_value_clone_ptr(h, value) ==
    IF CloneReadsFreed(h, value) THEN [h |-> [h EXCEPT !.ub = TRUE], a |-> 0]
    ELSE Store(h, smash_value_clone(Deref(h, value)))

\* smash_value_free: the elements of an array are freed with it, the
\* property values of an object are not.
RECURSIVE smash_value_free(_, _)
RECURSIVE FreeAll(_, _)
FreeAll(h, elements) ==
    IF elements = <<>> THEN h
    ELSE FreeAll(smash_value_free(h, Head(elements)), Tail(elements))

smash_value_free(h, value) ==
    IF value = 0 THEN h
    ELSE IF ~Live(h, value) THEN [h EXCEPT !.ub = TRUE]
    ELSE LET v == h.cells[value].v
             h1 == IF v.type = "ARRAY"
                   THEN FreeAll(h, SubSeq(v.elements, 1, v.size))
                   ELSE h
         IN  IF Live(h1, value) THEN [h1 EXCEPT !.cells[value] = Freed]
             ELSE [h1 EXCEPT !.ub = TRUE]

\* Mutant of smash_array_push: the array is grown one push early, when the
\* element pushed would fill it.
array_push_growing_early(h, array_value, element_value) ==
    IF array_value = 0 THEN h
    ELSE IF ~Live(h, array_value) THEN [h EXCEPT !.ub = TRUE]
    ELSE LET array == h.cells[array_value].v
         IN  IF array.type # "ARRAY" THEN h
             ELSE LET capacity == IF array.size + 1 >= array.capacity
                                  THEN IF array.capacity = 0 THEN 4
                                       ELSE array.capacity * 2
                                  ELSE array.capacity
                      elements == [i \in 1..capacity |->
                                      IF i = array.size + 1 THEN element_value
                                      ELSE IF i <= array.capacity
                                      THEN array.elements[i]
                                      ELSE 0]
                  IN  [h EXCEPT !.cells[array_value].v =
                          [array EXCEPT !.capacity = capacity,
                                        !.elements = elements,
                                        !.size = array.size + 1]]

\* Mutant of smash_array_push: a full array is not grown, the element is
\* dropped.
array_push_without_growth(h, array_value, element_value) ==
    IF array_value = 0 \/ ~Live(h, array_value) THEN h
    ELSE LET array == h.cells[array_value].v
         IN  IF array.type # "ARRAY" \/ array.size >= array.capacity THEN h
             ELSE [h EXCEPT !.cells[array_value].v =
                      [array EXCEPT !.elements[array.size + 1] = element_value,
                                    !.size = array.size + 1]]

\* smash_array_push: the heap after the call.
smash_array_push(h, array_value, element_value) ==
    IF array_value = 0 THEN h
    ELSE IF ~Live(h, array_value) THEN [h EXCEPT !.ub = TRUE]
    ELSE LET array == h.cells[array_value].v
         IN  IF array.type # "ARRAY" THEN h
             ELSE LET capacity == IF array.size >= array.capacity
                                  THEN IF array.capacity = 0 THEN 4
                                       ELSE array.capacity * 2
                                  ELSE array.capacity
                      elements == [i \in 1..capacity |->
                                      IF i = array.size + 1 THEN element_value
                                      ELSE IF i <= array.capacity
                                      THEN array.elements[i]
                                      ELSE 0]
                  IN  [h EXCEPT !.cells[array_value].v =
                          [array EXCEPT !.capacity = capacity,
                                        !.elements = elements,
                                        !.size = array.size + 1]]

\* smash_array_length: the heap after the call and the number returned. The
\* type tag and the size are read through the pointer: for a freed block the
\* read is undefined (ub) and the number returned is then not determined.
smash_array_length(h, array_value) ==
    IF array_value = 0 THEN [h |-> h, n |-> 0]
    ELSE IF ~Live(h, array_value) THEN [h |-> [h EXCEPT !.ub = TRUE], n |-> 0]
    ELSE IF h.cells[array_value].v.type # "ARRAY" THEN [h |-> h, n |-> 0]
    ELSE [h |-> h, n |-> h.cells[array_value].v.size]

\* smash_array_get: the heap after the call and the pointer returned.
smash_array_get(h, array_value, index) ==
    IF array_value # 0 /\ ~Live(h, array_value)
    THEN [h |-> [h EXCEPT !.ub = TRUE], a |-> 0]
    ELSE IF array_value = 0 \/ h.cells[array_value].v.type # "ARRAY"
    THEN Store(h, smash_value_create_null)
    ELSE LET array == h.cells[array_value].v
         IN  IF index < 0 \/ index >= array.size
             THEN Store(h, smash_value_create_null)
             ELSE [h |-> h, a |-> array.elements[index + 1]]

\* smash_object_set on the heap: the heap after the call.
smash_object_set_ptr(h, obj, property, value) ==
    IF obj = 0 THEN h
    ELSE IF ~Live(h, obj) THEN [h EXCEPT !.ub = TRUE]
    ELSE IF h.cells[obj].v.type # "OBJECT" \/ value = 0 THEN h
    ELSE LET r == smash_value_clone_ptr(h, value)
             object == h.cells[obj].v
             i == PropertyIndex(object, property)
         IN  IF r.h.ub THEN r.h
             ELSE IF i # 0
             THEN [smash_value_free(r.h, object.properties[i].value)
                      EXCEPT !.cells[obj].v.properties[i].value = r.a]
             ELSE [r.h EXCEPT !.cells[obj].v.properties =
                      Append(@, [key |-> property, value |-> r.a])]

\* smash_object_get on the heap: the heap after the call and the pointer
\* returned.
smash_object_get_ptr(h, obj, property) ==
    IF obj # 0 /\ ~Live(h, obj) THEN [h |-> [h EXCEPT !.ub = TRUE], a |-> 0]
    ELSE IF obj = 0 \/ h.cells[obj].v.type # "OBJECT"
    THEN Store(h, smash_value_create_null)
    ELSE LET object == h.cells[obj].v
             i == PropertyIndex(object, property)
         IN  IF i # 0 THEN smash_value_clone_ptr(h, object.properties[i].value)
             ELSE Store(h, smash_value_create_null)

\* The Values the caller creates: create_number, create_array(1) and
\* create_object.
Created ==
    {smash_value_create_number(1), smash_value_create_array(1),
     smash_value_create_object}

\* The caller holds a, an allocation of the given type.
Holds(a, type) ==
    a \in held /\ (Live(heap, a) => heap.cells[a].v.type = type)

\* The property names the caller uses.
Keys == {"k", "j"}

InitHeap ==
    /\ promises = <<>>
    /\ chain = <<>>
    /\ calls = <<>>
    /\ ub = FALSE
    /\ regs = <<>>
    /\ late = FALSE
    /\ direct = {}
    /\ timer = NoTimer
    /\ pc = [t \in Threads |-> "none"]
    /\ op = [t \in Threads |-> NoOp]
    /\ tcall = NoOp
    /\ sleepPromise = 0
    /\ heap = EmptyHeap
    /\ held = {}
    /\ cloned = NoOp
    /\ arr = NoArray
    /\ pushed = <<>>
    /\ got = NoOp
    /\ record = smash_value_create_object
    /\ sets = <<>>
    /\ fetched = <<>>
    /\ rx = NoOp
    /\ truth = NoOp
    /\ res = NoOp

\* The caller creates a Value.
Create ==
    \E v \in Created :
        LET r == Store(heap, v)
        IN  /\ ~heap.ub
            /\ Len(r.h.cells) <= MaxHeap
            /\ cloned' = NoOp
            /\ heap' = r.h
            /\ held' = held \cup {r.a}
            /\ UNCHANGED nonHeapVars

\* The caller pushes a Value it holds into an array it holds (never an
\* array into itself or into one of its own elements).
Push ==
    \E array_value \in held, element_value \in held :
        /\ ~heap.ub
        /\ Holds(array_value, "ARRAY")
        /\ Live(heap, array_value) => heap.cells[array_value].v.size < MaxLen
        /\ Live(heap, array_value) => array_value \notin Reach(heap, element_value)
        /\ cloned' = NoOp
        /\ heap' = smash_array_push(heap, array_value, element_value)
        /\ UNCHANGED <<held, nonHeapVars>>

\* The caller reads an element of an array it holds and keeps the pointer.
Get ==
    \E array_value \in held, index \in 0..MaxLen :
        LET r == smash_array_get(heap, array_value, index)
        IN  /\ ~heap.ub
            /\ Holds(array_value, "ARRAY")
            /\ Len(r.h.cells) <= MaxHeap
            /\ cloned' = NoOp
            /\ heap' = r.h
            /\ held' = held \cup ({r.a} \ {0})
            /\ UNCHANGED nonHeapVars

\* The caller sets a property of an object it holds to a Value it holds or
\* to NULL.
Set ==
    \E obj \in held, property \in Keys, value \in held \cup {0} :
        LET h == smash_object_set_ptr(heap, obj, property, value)
        IN  /\ ~heap.ub
            /\ Holds(obj, "OBJECT")
            /\ Len(h.cells) <= MaxHeap
            /\ cloned' = NoOp
            /\ heap' = h
            /\ UNCHANGED <<held, nonHeapVars>>

\* The caller reads a property of an object it holds and keeps the result.
GetProperty ==
    \E obj \in held, property \in Keys :
        LET r == smash_object_get_ptr(heap, obj, property)
        IN  /\ ~heap.ub
            /\ Holds(obj, "OBJECT")
            /\ Len(r.h.cells) <= MaxHeap
            /\ cloned' = NoOp
            /\ heap' = r.h
            /\ held' = held \cup ({r.a} \ {0})
            /\ UNCHANGED nonHeapVars

\* The caller clones a Value it holds and keeps the clone.
Clone ==
    \E value \in held :
        LET r == smash_value_clone_ptr(heap, value)
        IN  /\ ~heap.ub
            /\ Len(r.h.cells) <= MaxHeap
            /\ cloned' = [kind |-> "clone", value |-> value, result |-> r.a]
            /\ heap' = r.h
            /\ held' = held \cup ({r.a} \ {0})
            /\ UNCHANGED nonHeapVars

\* The caller frees a Value it holds and gives the pointer up.
Free ==
    \E value \in held :
        /\ ~heap.ub
        /\ cloned' = NoOp
        /\ heap' = smash_value_free(heap, value)
        /\ held' = held \ {value}
        /\ UNCHANGED nonHeapVars

NextHeap == Create \/ Push \/ Get \/ Set \/ GetProperty \/ Clone \/ Free

SpecHeap == InitHeap /\ [][NextHeap]_vars

-----------------------------------------------------------------------------
(* One array, created with a capacity the caller chooses, and the pushes    *)
(* and reads the caller makes on it (SpecArray).                            *)

\* The largest number of elements pushed onto the array.
MaxPush == 3

\* The largest initial capacity the caller asks for.
MaxCapacity == 2

\* The initial_capacity arguments: none or a negative one (default), 1, 2...
Capacities == -1..MaxCapacity

\* The numbers the caller creates as elements.
Elements == {smash_value_create_number(1), smash_value_create_number(2)}

InitArray ==
    /\ promises = <<>>
    /\ chain = <<>>
    /\ calls = <<>>
    /\ ub = FALSE
    /\ regs = <<>>
    /\ late = FALSE
    /\ direct = {}
    /\ timer = NoTimer
    /\ pc = [t \in Threads |-> "none"]
    /\ op = [t \in Threads |-> NoOp]
    /\ tcall = NoOp
    /\ sleepPromise = 0
    /\ heap = EmptyHeap
    /\ held = {}
    /\ cloned = NoOp
    /\ arr = NoArray
    /\ pushed = <<>>
    /\ got = NoOp
    /\ record = smash_value_create_object
    /\ sets = <<>>
    /\ fetched = <<>>
    /\ rx = NoOp
    /\ truth = NoOp
    /\ res = NoOp

\* The caller creates the array: smash_value_create_array(initial_capacity).
ArrayCreate ==
    \E initial_capacity \in Capacities :
        LET r == Store(heap, smash_value_create_array(initial_capacity))
        IN  /\ arr = NoArray
            /\ heap' = r.h
            /\ held' = held \cup {r.a}
            /\ arr' = [array |-> r.a, initial_capacity |-> initial_capacity]
            /\ UNCHANGED <<nonArrayVars, cloned, pushed, got>>

\* The caller creates a Number to push.
ArrayElement ==
    \E v \in Elements :
        LET r == Store(heap, v)
        IN  /\ arr # NoArray
            /\ Cardinality(held) <= MaxPush
            /\ heap' = r.h
            /\ held' = held \cup {r.a}
            /\ UNCHANGED <<nonArrayVars, cloned, arr, pushed, got>>

\* The caller pushes a Value it holds: smash_array_push(array, element).
ArrayPush ==
    \E element_value \in held \ {arr.array} :
        /\ arr # NoArray
        /\ Len(pushed) < MaxPush
        /\ heap' = smash_array_push(heap, arr.array, element_value)
        /\ pushed' = Append(pushed, element_value)
        /\ UNCHANGED <<nonArrayVars, held, cloned, arr, got>>

\* The caller reads an index, in range or not, and keeps the pointer:
\* smash_array_get(array, index).
ArrayGet ==
    \E index \in -1..MaxPush :
        LET r == smash_array_get(heap, arr.array, index)
        IN  /\ arr # NoArray
            /\ Len(r.h.cells) <= MaxPush + 2
            /\ heap' = r.h
            /\ held' = held \cup {r.a}
            /\ got' = [kind |-> "get", index |-> index, size |-> Len(pushed),
                       result |-> r.a,
                       before |-> heap.cells[arr.array],
                       after |-> r.h.cells[arr.array]]
            /\ UNCHANGED <<nonArrayVars, cloned, arr, pushed>>

NextArray == ArrayCreate \/ ArrayElement \/ ArrayPush \/ ArrayGet

SpecArray == InitArray /\ [][NextArray]_vars

-----------------------------------------------------------------------------
(* One object and the smash_object_set calls the caller makes on it         *)
(* (SpecObject); the object is modelled by content.                         *)

\* The largest number of smash_object_set calls.
MaxSets == 3

\* smash_object_get_keys, by content: the array of key strings.
smash_object_get_keys(obj) ==
    IF obj = NULL \/ obj.type # "OBJECT" THEN smash_value_create_array(0)
    ELSE LET key_count == Len(obj.properties)
             keys_array == smash_value_create_array(key_count)
         IN  [keys_array EXCEPT
                 !.size = key_count,
                 !.elements = [i \in 1..keys_array.capacity |->
                                  IF i <= key_count
                                  THEN smash_value_create_string(obj.properties[i].key)
                                  ELSE Uninit]]

\* The values the caller sets properties to.
SetValues ==
    {smash_value_create_number(1), smash_value_create_string("a"),
     ArrayOf(<<smash_value_create_number(1)>>)}

InitObject ==
    /\ promises = <<>>
    /\ chain = <<>>
    /\ calls = <<>>
    /\ ub = FALSE
    /\ regs = <<>>
    /\ late = FALSE
    /\ direct = {}
    /\ timer = NoTimer
    /\ pc = [t \in Threads |-> "none"]
    /\ op = [t \in Threads |-> NoOp]
    /\ tcall = NoOp
    /\ sleepPromise = 0
    /\ heap = EmptyHeap
    /\ held = {}
    /\ cloned = NoOp
    /\ arr = NoArray
    /\ pushed = <<>>
    /\ got = NoOp
    /\ record = smash_value_create_object
    /\ sets = <<>>
    /\ fetched = <<>>
    /\ rx = NoOp
    /\ truth = NoOp
    /\ res = NoOp

\* The caller sets a property: smash_object_set(record, property, value).
ObjectSet ==
    \E property \in Keys, value \in SetValues :
        /\ Len(sets) < MaxSets
        /\ record' = smash_object_set(record, property, value)
        /\ sets' = Append(sets, [property |-> property, value |-> value])
        /\ UNCHANGED nonObjectVars

NextObject == ObjectSet

SpecObject == InitObject /\ [][NextObject]_vars

-----------------------------------------------------------------------------
(* smash_fetch (SpecFetch). A URL is the sequence of its characters.        *)

\* The largest number of smash_fetch calls.
MaxFetches == 2

\* strstr(text, marker) != NULL
Contains(text, marker) ==
    \E i \in 0..(Len(text) - Len(marker)) :
        \A j \in 1..Len(marker) : text[i + j] = marker[j]

\* "example.com"
Marker == <<"e", "x", "a", "m", "p", "l", "e", ".", "c", "o", "m">>

\* The bodies of the mock responses.
SuccessBody == "{\"message\": \"Hello from the API\", \"success\": true}"

ErrorBody == "{\"error\": \"Not found\", \"success\": false}"

\* perform_http_request: the HttpResponse of the mock.
perform_http_request(url, method, body, headers) ==
    [status_code |-> 200,
     status_text |-> "OK",
     body |-> IF Contains(url, Marker) THEN SuccessBody ELSE ErrorBody,
     headers |-> smash_object_set(smash_value_create_object, "Content-Type",
                                  smash_value_create_string("application/json"))]

\* create_response_object: the Response object built from an HttpResponse.
create_response_object(http_response) ==
    LET r1 == smash_object_set(smash_value_create_object, "status",
                               smash_value_create_number(http_response.status_code))
        r2 == smash_object_set(r1, "statusText",
                               smash_value_create_string(http_response.status_text))
        r3 == smash_object_set(r2, "headers", http_response.headers)
    IN  smash_object_set(r3, "_body", smash_value_create_string(http_response.body))

\* fetch_thread_func: the request is performed and the promise resolved with
\* the Response object.
fetch_thread_func(st, data) ==
    LET http_response == perform_http_request(data.url, data.method, data.body,
                                              data.headers)
        response == create_response_object(http_response)
    IN  smash_promise_resolve(st, data.promise, response)

\* smash_fetch: the options are parsed into the FetchData block and
\* fetch_thread_func is called directly, on the caller's thread.
smash_fetch(st, url, options) ==
    LET st0 == smash_promise_create(st)
        promise == Len(st0.promises)
        parsed == options # NULL /\ options.type = "OBJECT"
        method == smash_object_get(options, "method")
        body == smash_object_get(options, "body")
        headers == smash_object_get(options, "headers")
        data == [promise |-> promise,
                 url |-> url,
                 method |-> IF parsed /\ method.type = "STRING"
                            THEN method.string ELSE "GET",
                 body |-> IF ~parsed THEN NULL
                          ELSE IF body.type = "STRING" THEN body.string ELSE "{}",
                 headers |-> IF parsed /\ headers.type = "OBJECT"
                             THEN smash_value_clone(headers) ELSE NULL]
    IN  [st |-> fetch_thread_func(st0, data), promise |-> promise]

\* The URLs the caller fetches: with the marker, with it inside a longer
\* text, with all but its last character, and the empty URL.
Urls ==
    {Marker, <<"/">> \o Marker \o <<"/">>, SubSeq(Marker, 1, Len(Marker) - 1), <<>>}

\* The options the caller passes: none, a method, a body.
FetchOptions ==
    {NULL,
     smash_object_set(smash_value_create_object, "method",
                      smash_value_create_string("POST")),
     smash_object_set(smash_value_create_object, "body",
                      smash_value_create_number(1))}

InitFetch ==
    /\ promises = <<>>
    /\ chain = <<>>
    /\ calls = <<>>
    /\ ub = FALSE
    /\ regs = <<>>
    /\ late = FALSE
    /\ direct = {}
    /\ timer = NoTimer
    /\ pc = [t \in Threads |-> "none"]
    /\ op = [t \in Threads |-> NoOp]
    /\ tcall = NoOp
    /\ sleepPromise = 0
    /\ heap = EmptyHeap
    /\ held = {}
    /\ cloned = NoOp
    /\ arr = NoArray
    /\ pushed = <<>>
    /\ got = NoOp
    /\ record = smash_value_create_object
    /\ sets = <<>>
    /\ fetched = <<>>
    /\ rx = NoOp
    /\ truth = NoOp
    /\ res = NoOp

\* The caller calls smash_fetch(url, options).
Fetch ==
    \E url \in Urls, options \in FetchOptions :
        LET r == smash_fetch(State, url, options)
        IN  /\ Len(fetched) < MaxFetches
            /\ Install(r.st)
            /\ fetched' = Append(fetched, [url |-> url, options |-> options,
                                           promise |-> r.promise])
            /\ UNCHANGED <<regs, late, direct, timerVars, heapVars, arrayVars,
                           objectVars, regexVars, truthVars, resultVars>>

NextFetch == Fetch

SpecFetch == InitFetch /\ [][NextFetch]_vars

-----------------------------------------------------------------------------
(* The dependency-free regex engine (SpecRegex). A C string is the sequence *)
(* of its characters; offsets count from 0 and the offset Len(s) holds the  *)
(* terminating NUL.                                                         *)

\* The terminating character of a C string.
NUL == "NUL"

\* The character codes of the characters used.
Ascii ==
    ("a" :> 97) @@ ("b" :> 98) @@ ("d" :> 100) @@ ("g" :> 103) @@ ("i" :> 105)
    @@ ("s" :> 115) @@ ("w" :> 119) @@ ("x" :> 120)
    @@ ("A" :> 65) @@ ("B" :> 66) @@ ("X" :> 88)
    @@ ("0" :> 48) @@ ("1" :> 49) @@ ("9" :> 57)
    @@ (" " :> 32) @@ ("+" :> 43) @@ ("," :> 44) @@ ("-" :> 45) @@ ("." :> 46)
    @@ ("/" :> 47) @@ ("[" :> 91) @@ ("\\" :> 92) @@ ("]" :> 93) @@ ("^" :> 94)
    @@ ("_" :> 95) @@ (NUL :> 0)

\* s[k] of a C string, for 0 <= k <= Len(s).
CharAt(s, k) == IF k < Len(s) THEN s[k + 1] ELSE NUL

\* <ctype.h>, on character codes, C locale.
tolower(c) == IF c >= 65 /\ c <= 90 THEN c + 32 ELSE c

toupper(c) == IF c >= 97 /\ c <= 122 THEN c - 32 ELSE c

isdigit(c) == c >= 48 /\ c <= 57

isalnum(c) == isdigit(c) \/ (c >= 65 /\ c <= 90) \/ (c >= 97 /\ c <= 122)

isspace(c) == c = 32 \/ (c >= 9 /\ c <= 13)

char_matches(c, pattern, case_insensitive) ==
    IF case_insensitive THEN tolower(Ascii[c]) = tolower(Ascii[pattern])
    ELSE c = pattern

is_word_char(c) == isalnum(Ascii[c]) \/ c = "_"

\* The scan of a character class body from pattern offset k against the text
\* character c: the offset the cursor stops at and whether c matched.
RECURSIVE ClassScan(_, _, _, _)
ClassScan(pattern, k, c, case_insensitive) ==
    IF CharAt(pattern, k) = NUL \/ CharAt(pattern, k) = "]"
    THEN [matched |-> FALSE, at |-> k]
    ELSE IF /\ CharAt(pattern, k) # "\\"
            /\ CharAt(pattern, k + 1) = "-"
            /\ CharAt(pattern, k + 2) # NUL
            /\ CharAt(pattern, k + 2) # "]"
         THEN LET start == Ascii[CharAt(pattern, k)]
                  end == Ascii[CharAt(pattern, k + 2)]
                  ch == Ascii[c]
              IN  IF \/ ch >= start /\ ch <= end
                     \/ /\ case_insensitive
                        /\ \/ tolower(ch) >= tolower(start) /\ tolower(ch) <= tolower(end)
                           \/ toupper(ch) >= toupper(start) /\ toupper(ch) <= toupper(end)
                  THEN [matched |-> TRUE, at |-> k]
                  ELSE ClassScan(pattern, k + 3, c, case_insensitive)
         ELSE IF char_matches(c, CharAt(pattern, k), case_insensitive)
              THEN [matched |-> TRUE, at |-> k]
              ELSE ClassScan(pattern, k + 1, c, case_insensitive)

\* The offset of the first NUL or ']' at or after k.
RECURSIVE ClassEnd(_, _)
ClassEnd(pattern, k) ==
    IF CharAt(pattern, k) = NUL \/ CharAt(pattern, k) = "]" THEN k
    ELSE ClassEnd(pattern, k + 1)

\* match_pattern_with_len with the text cursor at offset s of str and the
\* pattern cursor at offset p of a buffer of nbytes bytes that holds pattern
\* and NUL bytes after it. A read outside a buffer is undefined: oob
\* records it, and junk is what such reads make of the outcome, each read on
\* its own: junk.pattern is the result for a pattern read past the NUL,
\* junk.text the word status of the character before the text for \b at
\* offset 0.
RECURSIVE MatchFrom(_, _, _, _, _, _, _, _)
MatchFrom(str, s, pattern, nbytes, p, case_insensitive, junk, oob) ==
    IF p >= nbytes THEN [matched |-> junk.pattern, oob |-> TRUE]
    ELSE IF CharAt(str, s) = NUL \/ CharAt(pattern, p) = NUL
    THEN [matched |-> CharAt(pattern, p) = NUL, oob |-> oob]
    ELSE LET c == CharAt(str, s) IN
         IF CharAt(pattern, p) = "["
         THEN LET negate == CharAt(pattern, p + 1) = "^"
                  body == IF negate THEN p + 2 ELSE p + 1
                  scan == ClassScan(pattern, body, c, case_insensitive)
                  close == ClassEnd(pattern, scan.at)
                  after == IF CharAt(pattern, close) = "]" THEN close + 1 ELSE close
                  matched == IF negate THEN ~scan.matched ELSE scan.matched
              IN  IF CharAt(pattern, body) = "]" THEN [matched |-> FALSE, oob |-> oob]
                  ELSE IF ~matched THEN [matched |-> FALSE, oob |-> oob]
                  ELSE MatchFrom(str, s + 1, pattern, nbytes, after + 1, case_insensitive,
                                 junk, oob)
         ELSE IF CharAt(pattern, p) = "\\"
         THEN LET e == CharAt(pattern, p + 1) IN
              IF e = NUL THEN [matched |-> FALSE, oob |-> oob]
              ELSE IF e = "d"
              THEN IF ~isdigit(Ascii[c]) THEN [matched |-> FALSE, oob |-> oob]
                   ELSE MatchFrom(str, s + 1, pattern, nbytes, p + 2, case_insensitive,
                                  junk, oob)
              ELSE IF e = "w"
              THEN IF ~is_word_char(c) THEN [matched |-> FALSE, oob |-> oob]
                   ELSE MatchFrom(str, s + 1, pattern, nbytes, p + 2, case_insensitive,
                                  junk, oob)
              ELSE IF e = "s"
              THEN IF ~isspace(Ascii[c]) THEN [matched |-> FALSE, oob |-> oob]
                   ELSE MatchFrom(str, s + 1, pattern, nbytes, p + 2, case_insensitive,
                                  junk, oob)
              ELSE IF e = "b"
              THEN LET prev_is_word == IF s = 0 THEN junk.text
                                       ELSE is_word_char(CharAt(str, s - 1))
                       curr_is_word == is_word_char(c)
                       read == oob \/ s = 0
                   IN  IF prev_is_word = curr_is_word
                       THEN [matched |-> FALSE, oob |-> read]
                       ELSE MatchFrom(str, s, pattern, nbytes, p + 2, case_insensitive,
                                      junk, read)
              ELSE IF ~char_matches(c, e, case_insensitive)
                   THEN [matched |-> FALSE, oob |-> oob]
                   ELSE MatchFrom(str, s + 1, pattern, nbytes, p + 2, case_insensitive,
                                  junk, oob)
         ELSE IF CharAt(pattern, p) = "."
         THEN MatchFrom(str, s + 1, pattern, nbytes, p + 1, case_insensitive, junk, oob)
         ELSE IF ~char_matches(c, CharAt(pattern, p), case_insensitive)
              THEN [matched |-> FALSE, oob |-> oob]
              ELSE MatchFrom(str, s + 1, pattern, nbytes, p + 1, case_insensitive, junk, oob)

match_pattern_with_len(str, s, pattern, nbytes, case_insensitive, junk) ==
    MatchFrom(str, s, pattern, nbytes, 0, case_insensitive, junk, FALSE)

match_pattern(str, s, pattern, nbytes, case_insensitive, junk) ==
    match_pattern_with_len(str, s, pattern, nbytes, case_insensitive, junk)

\* simple_regex_create: the flags are read character by character.
simple_regex_create(pattern, flags) ==
    [pattern |-> pattern,
     flags |-> flags,
     case_insensitive |-> \E k \in DOMAIN flags : flags[k] = "i",
     global |-> \E k \in DOMAIN flags : flags[k] = "g"]

\* The number of consecutive offsets from i + j on at which the pattern
\* without its '+' matches, and whether a read left a buffer. The buffer of
\* that pattern is the copy of the whole pattern, so two NUL bytes end it.
RECURSIVE ClassRun(_, _, _, _, _, _, _)
ClassRun(str, i, j, base_pattern, case_insensitive, junk, oob) ==
    IF i + j >= Len(str) THEN [len |-> j, oob |-> oob]
    ELSE LET m == match_pattern(str, i + j, base_pattern, Len(base_pattern) + 2,
                                case_insensitive, junk)
         IN  IF m.matched
             THEN ClassRun(str, i, j + 1, base_pattern, case_insensitive, junk,
                           oob \/ m.oob)
             ELSE [len |-> j, oob |-> oob \/ m.oob]

\* MatchLength without the run of a class with '+': one character.
match_length_without_run(regex, str, i, junk) ==
    LET pattern_len == Len(regex.pattern)
        has_plus == pattern_len > 0 /\ regex.pattern[pattern_len] = "+"
    IN  IF has_plus
        THEN IF CharAt(regex.pattern, 0) = "["
             THEN [len |-> 1, oob |-> FALSE]
             ELSE [len |-> pattern_len - 1, oob |-> FALSE]
        ELSE IF CharAt(regex.pattern, 0) = "["
             THEN [len |-> 1, oob |-> FALSE]
             ELSE [len |-> IF i + pattern_len > Len(str) THEN Len(str) - i
                           ELSE pattern_len,
                   oob |-> FALSE]

\* The length simple_regex_match and simple_regex_replace give the match
\* found at offset i.
MatchLength(regex, str, i, junk) ==
    LET pattern_len == Len(regex.pattern)
        has_plus == pattern_len > 0 /\ regex.pattern[pattern_len] = "+"
        base_pattern == SubSeq(regex.pattern, 1, pattern_len - 1)
    IN  IF has_plus
        THEN IF CharAt(base_pattern, 0) = "["
             THEN ClassRun(str, i, 0, base_pattern, regex.case_insensitive, junk,
                           FALSE)
             ELSE [len |-> pattern_len - 1, oob |-> FALSE]
        ELSE IF CharAt(regex.pattern, 0) = "["
             THEN [len |-> 1, oob |-> FALSE]
             ELSE [len |-> IF i + pattern_len > Len(str) THEN Len(str) - i
                           ELSE pattern_len,
                   oob |-> FALSE]

\* strncpy(dest, str + i, n): the characters of str from offset i up to its
\* NUL, padded with NUL bytes to n bytes.
strncpy(str, i, n) ==
    [k \in 1..n |-> CharAt(str, i + k - 1)]

\* The C string a byte sequence holds: the bytes before its first NUL.
RECURSIVE CString(_)
CString(bytes) ==
    IF bytes = <<>> \/ Head(bytes) = NUL THEN <<>>
    ELSE <<Head(bytes)>> \o CString(Tail(bytes))

\* strrchr(s, ch): the 1-based position of the last ch in s, 0 if none.
strrchr(s, ch) ==
    IF \E k \in DOMAIN s : s[k] = ch
    THEN CHOOSE k \in DOMAIN s : s[k] = ch /\ \A l \in DOMAIN s : s[l] = ch => l <= k
    ELSE 0

\* The split smash_string_match and smash_string_replace make of their
\* pattern argument at its last '/', unless that is its first character.
\* flags_in tells which buffer flags points into.
SplitPattern(pattern, default_flags) ==
    LET slash_pos == strrchr(pattern, "/")
    IN  IF slash_pos > 1
        THEN [pattern |-> SubSeq(pattern, 1, slash_pos - 1),
              flags |-> SubSeq(pattern, slash_pos + 1, Len(pattern)),
              flags_in |-> "pattern_copy"]
        ELSE [pattern |-> pattern, flags |-> default_flags, flags_in |-> "literal"]

\* ReplaceFlags without the 'g' added to a suffix that lacks it.
replace_flags_as_given(pattern) ==
    SplitPattern(pattern, <<"g">>)

\* The flags smash_string_replace passes on: 'g' is appended, in a new
\* buffer, to a suffix that lacks it.
ReplaceFlags(pattern) ==
    LET split == SplitPattern(pattern, <<"g">>)
    IN  IF split.flags_in = "pattern_copy" /\ ~\E k \in DOMAIN split.flags :
                                                   split.flags[k] = "g"
        THEN [split EXCEPT !.flags = split.flags \o <<"g">>, !.flags_in = "malloc"]
        ELSE split

\* The bytes simple_regex_match mallocs for its result.
InitialCapacity == 1024

\* The state of a call when its scan loop is entered, or when malloc gave
\* no result buffer (allocated is FALSE) and the function returns NULL.
\* result_capacity is the size of the buffer; odd is the parity of the
\* number of iterations made; failed tells that the function returns NULL
\* because malloc or realloc did; tried and found are the offset and the
\* result of the last match_pattern call on the whole pattern; oob tells
\* that a match_pattern call of the scan read outside a buffer, overflow
\* that a write was made outside the result buffer: the write of result[0]
\* before the loop, when the buffer has no byte.
Scan(kind, via, str, pattern, replacement, split, result_capacity, allocated) ==
    [kind |-> kind, via |-> via, str |-> str, pattern |-> pattern,
     replacement |-> replacement,
     regex |-> simple_regex_create(split.pattern, split.flags),
     flags_in |-> split.flags_in,
     i |-> 0, result |-> <<>>, result_capacity |-> result_capacity,
     last_match_end |-> 0,
     pc |-> IF allocated THEN "loop" ELSE "exit",
     odd |-> FALSE, failed |-> ~allocated, tried |-> -1, found |-> FALSE,
     oob |-> FALSE, flags_freed |-> FALSE,
     overflow |-> allocated /\ result_capacity = 0,
     ub |-> allocated /\ result_capacity = 0]

\* The largest number of pattern elements and of text characters.
MaxElems == 2

MaxText == 3

\* The pattern elements: literals, the dot, an escape, character classes
\* (plain, negated, range) and the plus sign.
PatternElements ==
    {<<"a">>, <<".">>, <<"\\", "d">>, <<"[", "a", "]">>,
     <<"[", "^", "a", "]">>, <<"[", "0", "-", "9", "]">>, <<"+">>}

RECURSIVE Flatten(_)
Flatten(seqs) ==
    IF seqs = <<>> THEN <<>> ELSE Head(seqs) \o Flatten(Tail(seqs))

Patterns ==
    {Flatten(es) : es \in UNION {[1..n -> PatternElements] : n \in 0..MaxElems}}

TextChars == {"a", "A", "1", "+"}

Texts == UNION {[1..n -> TextChars] : n \in 0..MaxText}

Replacements == {<<>>, <<"a", "X">>}

\* The largest block the allocator gives: realloc returns NULL for a larger
\* one, and may return NULL for any.
MaxAlloc == 16

\* The flags given to smash_regex_create, and the /flags suffixes of the
\* pattern argument of smash_string_match and smash_string_replace.
RegexFlags == {<<>>, <<"g">>, <<"i">>, <<"g", "i">>}

Suffixes == {<<>>, <<"/">>, <<"/", "g">>, <<"/", "i">>, <<"/", "g", "i">>}

InitRegex ==
    /\ promises = <<>>
    /\ chain = <<>>
    /\ calls = <<>>
    /\ ub = FALSE
    /\ regs = <<>>
    /\ late = FALSE
    /\ direct = {}
    /\ timer = NoTimer
    /\ pc = [t \in Threads |-> "none"]
    /\ op = [t \in Threads |-> NoOp]
    /\ tcall = NoOp
    /\ sleepPromise = 0
    /\ heap = EmptyHeap
    /\ held = {}
    /\ cloned = NoOp
    /\ arr = NoArray
    /\ pushed = <<>>
    /\ got = NoOp
    /\ record = smash_value_create_object
    /\ sets = <<>>
    /\ fetched = <<>>
    /\ rx = NoOp
    /\ truth = NoOp
    /\ res = NoOp

\* smash_string_match(str, pattern) up to the scan loop of simple_regex_match.
StringMatch ==
    /\ rx = NoOp
    /\ \E str \in Texts, p \in Patterns, suffix \in Suffixes :
           rx' = Scan("match", "string", str, p \o suffix, <<>>,
                         SplitPattern(p \o suffix, <<>>), InitialCapacity, TRUE)
    /\ UNCHANGED nonRegexVars

\* smash_string_replace(str, pattern, replacement) up to the scan loop of
\* simple_regex_replace, whose result buffer has 2 * strlen(str) bytes:
\* malloc returns a block of that size or NULL.
StringReplace ==
    /\ rx = NoOp
    /\ \E str \in Texts, p \in Patterns, suffix \in Suffixes,
          replacement \in Replacements, allocated \in BOOLEAN :
           rx' = Scan("replace", "string", str, p \o suffix, replacement,
                         ReplaceFlags(p \o suffix), Len(str) * 2, allocated)
    /\ UNCHANGED nonRegexVars

\* smash_regex_create(pattern, flags) and smash_regex_match(regex, str) up to
\* the scan loop.
RegexMatch ==
    /\ rx = NoOp
    /\ \E str \in Texts, p \in Patterns, flags \in RegexFlags :
           rx' = Scan("match", "regex", str, p, <<>>,
                         [pattern |-> p, flags |-> flags, flags_in |-> "caller"],
                         InitialCapacity, TRUE)
    /\ UNCHANGED nonRegexVars

\* smash_regex_create(pattern, flags) and smash_regex_replace(regex, str,
\* replacement) up to the scan loop.
RegexReplace ==
    /\ rx = NoOp
    /\ \E str \in Texts, p \in Patterns, flags \in RegexFlags,
          replacement \in Replacements, allocated \in BOOLEAN :
           rx' = Scan("replace", "regex", str, p, replacement,
                         [pattern |-> p, flags |-> flags, flags_in |-> "caller"],
                         Len(str) * 2, allocated)
    /\ UNCHANGED nonRegexVars

\* One iteration of the for loop of simple_regex_match, its i++ included.
\* size_t arithmetic: i += match_len - 1 followed by i++ adds match_len.
MatchStep ==
    /\ rx # NoOp /\ rx.kind = "match" /\ rx.pc = "loop"
    /\ rx.i < Len(rx.str)
    /\ \E junk \in [pattern : BOOLEAN, text : BOOLEAN] :
           LET m == match_pattern(rx.str, rx.i, rx.regex.pattern,
                                  Len(rx.regex.pattern) + 1,
                                  rx.regex.case_insensitive, junk)
               l == MatchLength(rx.regex, rx.str, rx.i, junk)
               match_len == l.len
               separator == IF Len(rx.result) > 0 THEN <<",">> ELSE <<>>
           IN  rx' = IF ~m.matched
                        THEN [rx EXCEPT !.i = rx.i + 1, !.odd = ~rx.odd,
                                        !.tried = rx.i, !.found = FALSE,
                                        !.oob = rx.oob \/ m.oob,
                                        !.ub = rx.ub \/ m.oob]
                        ELSE [rx EXCEPT
                                !.result = rx.result \o separator
                                           \o strncpy(rx.str, rx.i, match_len),
                                !.pc = IF rx.regex.global THEN "loop" ELSE "exit",
                                !.odd = ~rx.odd,
                                !.tried = rx.i, !.found = TRUE,
                                !.i = IF rx.regex.global
                                      THEN rx.i + match_len - 1 + 1 ELSE rx.i,
                                !.oob = rx.oob \/ m.oob \/ l.oob,
                                !.ub = rx.ub \/ m.oob \/ l.oob]
    /\ UNCHANGED nonRegexVars

\* realloc(result, capacity) gives a block: it may whenever the allocator
\* has one of that size.
Grown(capacity, given) == given /\ capacity <= MaxAlloc

\* One iteration of the for loop of simple_regex_replace, its i++ included.
\* Before the text between the matches and before the replacement are
\* copied the buffer is grown if they do not fit with the NUL; when realloc
\* returns NULL the buffer is freed and the function returns NULL.
ReplaceStep ==
    /\ rx # NoOp /\ rx.kind = "replace" /\ rx.pc = "loop"
    /\ rx.i < Len(rx.str)
    /\ \E junk \in [pattern : BOOLEAN, text : BOOLEAN],
          given \in [between : BOOLEAN, replacement : BOOLEAN] :
           LET m == match_pattern(rx.str, rx.i, rx.regex.pattern,
                                  Len(rx.regex.pattern) + 1,
                                  rx.regex.case_insensitive, junk)
               l == MatchLength(rx.regex, rx.str, rx.i, junk)
               match_len == l.len
               result_len == Len(rx.result)
               replacement_len == Len(rx.replacement)
               between_len == rx.i - rx.last_match_end
               between == IF between_len > 0
                          THEN strncpy(rx.str, rx.last_match_end, between_len)
                          ELSE <<>>
               grow_between == between_len > 0
                               /\ result_len + between_len + 1 > rx.result_capacity
               between_capacity == IF grow_between THEN rx.result_capacity * 2
                                   ELSE rx.result_capacity
               between_end == result_len + Len(between)
               grow_replacement == between_end + replacement_len + 1
                                      > between_capacity
               result_capacity == IF grow_replacement
                                  THEN (between_end + replacement_len + 1) * 2
                                  ELSE between_capacity
               null == \/ grow_between /\ ~Grown(between_capacity, given.between)
                       \/ grow_replacement
                            /\ ~Grown(result_capacity, given.replacement)
               outside == \/ between_len > 0 /\ between_end + 1 > between_capacity
                          \/ between_end + replacement_len + 1 > result_capacity
           IN  rx' = IF ~m.matched
                        THEN [rx EXCEPT !.i = rx.i + 1, !.odd = ~rx.odd,
                                        !.tried = rx.i, !.found = FALSE,
                                        !.oob = rx.oob \/ m.oob,
                                        !.ub = rx.ub \/ m.oob]
                        ELSE IF null
                        THEN [rx EXCEPT !.pc = "exit", !.failed = TRUE,
                                        !.result = <<>>,
                                        !.odd = ~rx.odd,
                                        !.tried = rx.i, !.found = TRUE,
                                        !.oob = rx.oob \/ m.oob \/ l.oob,
                                        !.ub = rx.ub \/ m.oob \/ l.oob]
                        ELSE [rx EXCEPT
                                !.result = rx.result \o between \o rx.replacement,
                                !.result_capacity = result_capacity,
                                !.odd = ~rx.odd,
                                !.tried = rx.i, !.found = TRUE,
                                !.last_match_end = rx.i + match_len,
                                !.i = IF rx.regex.global
                                      THEN rx.i + match_len - 1 + 1
                                      ELSE Len(rx.str) + 1,
                                !.oob = rx.oob \/ m.oob \/ l.oob,
                                !.overflow = rx.overflow \/ outside,
                                !.ub = rx.ub \/ m.oob \/ l.oob \/ outside]
    /\ UNCHANGED nonRegexVars

\* simple_regex_match returns its result; smash_string_match frees the regex
\* and its copy of the pattern.
MatchReturn ==
    /\ rx # NoOp /\ rx.kind = "match"
    /\ rx.pc = "exit" \/ (rx.pc = "loop" /\ rx.i >= Len(rx.str))
    /\ rx' = [rx EXCEPT !.pc = "done"]
    /\ UNCHANGED nonRegexVars

\* The test smash_string_replace makes before free(flags):
\* strcmp(flags, "g") != 0 && strchr(flags, 'g').
FlagsFreed(seen) ==
    seen # <<"g">> /\ \E k \in DOMAIN seen : seen[k] = "g"

\* The bytes the allocator may have put into a freed block, as the strings
\* a read of them gives: a NUL first, bytes without 'g', bytes with 'g'.
FreedBytes == {<<>>, <<"c">>, <<"c", "g">>}

\* What that test reads at flags, after free(pattern_copy): the flags
\* string, or, when flags points into the freed copy, the bytes the block
\* held or bytes the allocator has put there.
FlagsRead ==
    IF rx.flags_in = "pattern_copy" THEN {rx.regex.flags} \cup FreedBytes
    ELSE {rx.regex.flags}

\* simple_regex_replace copies the text after the last match, in a buffer
\* grown if it does not fit, and returns, or has returned NULL;
\* smash_string_replace frees the regex and its copy of the pattern, then
\* reads flags to decide whether to free it: a read of freed memory when
\* flags points into that copy. flags_freed tells that free(flags) was
\* called.
ReplaceReturn ==
    LET result_len == Len(rx.result)
        remaining_len == Len(rx.str) - rx.last_match_end
        tail == IF rx.last_match_end < Len(rx.str)
                THEN SubSeq(rx.str, rx.last_match_end + 1, Len(rx.str))
                ELSE <<>>
        grow == /\ rx.last_match_end < Len(rx.str)
                /\ result_len + remaining_len + 1 > rx.result_capacity
        result_capacity == IF grow THEN (result_len + remaining_len + 1) * 2
                           ELSE rx.result_capacity
        outside == /\ rx.last_match_end < Len(rx.str)
                   /\ result_len + remaining_len + 1 > result_capacity
    IN  /\ rx # NoOp /\ rx.kind = "replace"
        /\ rx.pc = "exit" \/ (rx.pc = "loop" /\ rx.i >= Len(rx.str))
        /\ \E seen \in FlagsRead, given \in BOOLEAN :
               LET freed == rx.via = "string" /\ FlagsFreed(seen)
                   read == rx.via = "string" /\ rx.flags_in = "pattern_copy"
               IN  rx' = IF rx.failed
                         THEN [rx EXCEPT !.pc = "done", !.flags_freed = freed,
                                         !.ub = rx.ub \/ read]
                         ELSE IF grow /\ ~Grown(result_capacity, given)
                         THEN [rx EXCEPT !.pc = "done", !.failed = TRUE,
                                         !.result = <<>>,
                                         !.flags_freed = freed,
                                         !.ub = rx.ub \/ read]
                         ELSE [rx EXCEPT !.result = rx.result \o tail,
                                         !.result_capacity = result_capacity,
                                         !.pc = "done",
                                         !.flags_freed = freed,
                                         !.overflow = rx.overflow \/ outside,
                                         !.ub = rx.ub \/ read \/ outside]
        /\ UNCHANGED nonRegexVars

NextRegex ==
    \/ StringMatch
    \/ StringReplace
    \/ RegexMatch
    \/ RegexReplace
    \/ MatchStep
    \/ ReplaceStep
    \/ MatchReturn
    \/ ReplaceReturn

SpecRegex == InitRegex /\ [][NextRegex]_vars

\* The scans with the global flag (SpecScan): smaller texts and patterns.
MaxScanText == 2

MaxScanElems == 1

ScanTexts == UNION {[1..n -> TextChars] : n \in 0..MaxScanText}

ScanPatterns ==
    {Flatten(es) : es \in UNION {[1..n -> PatternElements] : n \in 0..MaxScanElems}}

GlobalFlags == {<<"g">>, <<"g", "i">>}

\* smash_regex_create(pattern, flags) with 'g' among the flags, then
\* smash_regex_match or smash_regex_replace up to the scan loop.
GlobalCall ==
    /\ rx = NoOp
    /\ \E str \in ScanTexts, p \in ScanPatterns, flags \in GlobalFlags,
          kind \in {"match", "replace"}, replacement \in Replacements,
          allocated \in BOOLEAN :
           /\ kind = "match" => allocated
           /\ rx' = Scan(kind, "regex", str, p,
                         IF kind = "replace" THEN replacement ELSE <<>>,
                         [pattern |-> p, flags |-> flags, flags_in |-> "caller"],
                         IF kind = "replace" THEN Len(str) * 2
                         ELSE InitialCapacity,
                         allocated)
    /\ UNCHANGED nonRegexVars

\* smash_string_replace(str, pattern, replacement) up to the scan loop, the
\* pattern argument with no suffix or with "/i".
GlobalStringReplace ==
    /\ rx = NoOp
    /\ \E str \in ScanTexts, p \in ScanPatterns, suffix \in {<<>>, <<"/", "i">>},
          replacement \in Replacements, allocated \in BOOLEAN :
           rx' = Scan("replace", "string", str, p \o suffix, replacement,
                      ReplaceFlags(p \o suffix), Len(str) * 2, allocated)
    /\ UNCHANGED nonRegexVars

\* A step of the scan loop of the call in progress, or its return.
ScanNext ==
    \/ MatchStep
    \/ ReplaceStep
    \/ MatchReturn
    \/ ReplaceReturn

NextScan ==
    \/ GlobalCall
    \/ GlobalStringReplace
    \/ MatchStep
    \/ ReplaceStep
    \/ MatchReturn
    \/ ReplaceReturn

SpecScan == InitRegex /\ [][NextScan]_vars

\* The thread that made the call keeps running it.
FairSpecScan == SpecScan /\ WF_vars(ScanNext)

-----------------------------------------------------------------------------
(* Truthiness (SpecTruthy).                                                 *)

\* smash_value_is_truthy with every array truthy.
is_truthy_for_any_array(value) ==
    IF value = NULL THEN FALSE
    ELSE CASE value.type = "NULL" -> FALSE
           [] value.type = "BOOLEAN" -> value.boolean
           [] value.type = "NUMBER" -> value.number # 0
           [] value.type = "STRING" -> value.string # ""
           [] value.type = "ARRAY" -> TRUE
           [] value.type = "OBJECT" -> TRUE
           [] OTHER -> FALSE

\* smash_value_is_truthy: the default branch takes every tag the switch
\* does not name.
smash_value_is_truthy(value) ==
    IF value = NULL THEN FALSE
    ELSE CASE value.type = "NULL" -> FALSE
           [] value.type = "BOOLEAN" -> value.boolean
           [] value.type = "NUMBER" -> value.number # 0
           [] value.type = "STRING" -> value.string # ""
           [] value.type = "ARRAY" -> value.size > 0
           [] value.type = "OBJECT" -> TRUE
           [] OTHER -> FALSE

smash_value_logical_not(value) ==
    IF value = NULL THEN smash_value_create_boolean(TRUE)
    ELSE smash_value_create_boolean(~smash_value_is_truthy(value))

\* The largest absolute value of the Numbers and the largest array size.
MaxNumber == 3

MaxSize == 2

\* The values an array or an object of TruthValues holds.
Scalars ==
    {smash_value_create_null, smash_value_create_boolean(FALSE),
     smash_value_create_number(0), smash_value_create_string("")}

\* The values the caller passes: every tag, the empty and the zero values
\* of each, and the NULL pointer.
TruthValues ==
    {NULL, smash_value_create_null, Undefined}
    \cup {smash_value_create_boolean(b) : b \in BOOLEAN}
    \cup {smash_value_create_number(n) : n \in (-MaxNumber)..MaxNumber}
    \cup {smash_value_create_string(str) : str \in {"", "a", "0", "false"}}
    \cup {ArrayOf(elems) : elems \in UNION {[1..n -> Scalars] : n \in 0..MaxSize}}
    \cup {smash_value_create_object}
    \cup {smash_object_set(smash_value_create_object, k, v) :
            k \in Keys, v \in Scalars}
    \cup UNION {{smash_value_create_function(fn, 0, role) :
                    fn \in FunctionNames(role)} :
                 role \in {"on_fulfilled", "on_rejected"}}
    \cup {PromiseValue(id) : id \in 1..MaxPromises}

InitTruthy ==
    /\ promises = <<>>
    /\ chain = <<>>
    /\ calls = <<>>
    /\ ub = FALSE
    /\ regs = <<>>
    /\ late = FALSE
    /\ direct = {}
    /\ timer = NoTimer
    /\ pc = [t \in Threads |-> "none"]
    /\ op = [t \in Threads |-> NoOp]
    /\ tcall = NoOp
    /\ sleepPromise = 0
    /\ heap = EmptyHeap
    /\ held = {}
    /\ cloned = NoOp
    /\ arr = NoArray
    /\ pushed = <<>>
    /\ got = NoOp
    /\ record = smash_value_create_object
    /\ sets = <<>>
    /\ fetched = <<>>
    /\ rx = NoOp
    /\ truth = NoOp
    /\ res = NoOp

\* The caller calls smash_value_is_truthy(value).
IsTruthy ==
    \E value \in TruthValues :
        /\ truth' = [kind |-> "is_truthy", value |-> value,
                     result |-> smash_value_is_truthy(value)]
        /\ UNCHANGED nonTruthVars

\* The caller calls smash_value_logical_not(value).
LogicalNot ==
    \E value \in TruthValues :
        /\ truth' = [kind |-> "logical_not", value |-> value,
                     result |-> smash_value_logical_not(value)]
        /\ UNCHANGED nonTruthVars

NextTruthy == IsTruthy \/ LogicalNot

SpecTruthy == InitTruthy /\ [][NextTruthy]_vars

-----------------------------------------------------------------------------
(* The result buffer of simple_regex_match on long texts (SpecResult): the  *)
(* call simple_regex_match(regex, str) with the pattern "[0-9]+" and the    *)
(* flag g, on a text of runs of digits with one letter between two runs.    *)
(* The text is given by the lengths of its runs.                            *)

\* The largest number of runs of digits in a text.
MaxRuns == 2

\* The lengths of a run: one digit, and the lengths next to those that fill
\* the buffer as allocated and as doubled once.
RunLengths ==
    {1, InitialCapacity - 2, InitialCapacity - 1,
     2 * InitialCapacity - 2, 2 * InitialCapacity - 1, 2 * InitialCapacity}

RunTexts == UNION {[1..n -> RunLengths] : n \in 1..MaxRuns}

RECURSIVE Sum(_)
Sum(lengths) == IF lengths = <<>> THEN 0 ELSE Head(lengths) + Sum(Tail(lengths))

\* strlen(str): the digits and the letters between the runs.
RunTextLength(runs) == Sum(runs) + Len(runs) - 1

\* The offset at which the k-th run begins.
RunStart(runs, k) == Sum(SubSeq(runs, 1, k - 1)) + k - 1

\* The run that begins at offset i, 0 if none does.
RunAt(runs, i) ==
    IF \E k \in DOMAIN runs : RunStart(runs, k) = i
    THEN CHOOSE k \in DOMAIN runs : RunStart(runs, k) = i
    ELSE 0

\* The result buffer after the resize step for a match of match_len bytes:
\* the capacity is doubled once when result_len + match_len + 2 exceeds it.
Resize(result_len, match_len, result_capacity) ==
    IF result_len + match_len + 2 > result_capacity
    THEN result_capacity * 2
    ELSE result_capacity

InitResult ==
    /\ promises = <<>>
    /\ chain = <<>>
    /\ calls = <<>>
    /\ ub = FALSE
    /\ regs = <<>>
    /\ late = FALSE
    /\ direct = {}
    /\ timer = NoTimer
    /\ pc = [t \in Threads |-> "none"]
    /\ op = [t \in Threads |-> NoOp]
    /\ tcall = NoOp
    /\ sleepPromise = 0
    /\ heap = EmptyHeap
    /\ held = {}
    /\ cloned = NoOp
    /\ arr = NoArray
    /\ pushed = <<>>
    /\ got = NoOp
    /\ record = smash_value_create_object
    /\ sets = <<>>
    /\ fetched = <<>>
    /\ rx = NoOp
    /\ truth = NoOp
    /\ res = NoOp

\* simple_regex_match up to its scan loop: the buffer is allocated. ub tells
\* that a write went past the end of the buffer.
ResultCall ==
    /\ res = NoOp
    /\ \E runs \in RunTexts :
           res' = [kind |-> "match", runs |-> runs, i |-> 0, result_len |-> 0,
                   result_capacity |-> InitialCapacity, matches |-> 0,
                   ub |-> FALSE, pc |-> "loop"]
    /\ UNCHANGED nonResultVars

\* An iteration of the loop at the first digit of a run: the match is the
\* run; the buffer is resized, the separator and the match are copied and
\* the NUL is written, and i moves past the match.
ResultMatch ==
    /\ res # NoOp /\ res.pc = "loop" /\ ~res.ub
    /\ res.i < RunTextLength(res.runs)
    /\ RunAt(res.runs, res.i) # 0
    /\ LET match_len == res.runs[RunAt(res.runs, res.i)]
           result_capacity == Resize(res.result_len, match_len, res.result_capacity)
           separator == IF res.result_len > 0 THEN 1 ELSE 0
           result_len == res.result_len + separator + match_len
       IN  res' = [res EXCEPT
                      !.result_capacity = result_capacity,
                      !.result_len = result_len,
                      !.matches = res.matches + 1,
                      !.ub = result_len + 1 > result_capacity,
                      !.i = res.i + match_len - 1 + 1]
    /\ UNCHANGED nonResultVars

\* An iteration of the loop at the letter after a run: no match, i++.
ResultSkip ==
    /\ res # NoOp /\ res.pc = "loop" /\ ~res.ub
    /\ res.i < RunTextLength(res.runs)
    /\ RunAt(res.runs, res.i) = 0
    /\ res' = [res EXCEPT !.i = res.i + 1]
    /\ UNCHANGED nonResultVars

\* simple_regex_match returns its result.
ResultReturn ==
    /\ res # NoOp /\ res.pc = "loop" /\ ~res.ub
    /\ res.i >= RunTextLength(res.runs)
    /\ res' = [res EXCEPT !.pc = "done"]
    /\ UNCHANGED nonResultVars

NextResult == ResultCall \/ ResultMatch \/ ResultSkip \/ ResultReturn

SpecResult == InitResult /\ [][NextResult]_vars

-----------------------------------------------------------------------------
(* Properties of the promise engine, single thread.                        *)

\* The handler invocations made for the k-th then/catch call.
CallsOf(k) == SelectSeq(calls, LAMBDA c : c.handler.reg = k)

\* A later then/catch call on the same still-pending source replaced the
\* continuation data of the k-th call.
Overwritten(k) ==
    \E j \in DOMAIN regs :
        j > k /\ regs[j].src = regs[k].src /\ regs[j].status = "PENDING"

\* The k-th then/catch call was made on a pending source that has settled
\* since, is the one the source's continuation slot holds, and the caller did
\* not settle the returned promise itself.
SettledLater(k) ==
    /\ regs[k].status = "PENDING"
    /\ promises[regs[k].src].status # "PENDING"
    /\ ~Overwritten(k)
    /\ regs[k].next \notin direct

\* C1: once a promise is settled, no step (a later resolve or reject, with
\* any value) changes its status or its result.
C1_FirstSettlementWins ==
    [][\A p \in DOMAIN promises :
          promises[p].status # "PENDING" =>
              /\ promises'[p].status = promises[p].status
              /\ promises'[p].result = promises[p].result]_vars

\* A settled promise on which a later resolve/reject call with another value
\* was made.
C1_Witness ==
    /\ late
    /\ \E p \in DOMAIN promises :
          promises[p].status # "PENDING" /\ promises[p].nwrites = 1

\* C2: a then/catch call on a pending source that settles later gets the
\* handler matching the outcome invoked, once, with the settled payload, and
\* the returned promise Fulfilled with what that handler returned (compared
\* after the clone resolve makes); a rejection never invokes on_fulfilled.
C2_MatchingHandlerInvoked ==
    \A k \in DOMAIN regs :
        LET reg == regs[k]
            src == promises[reg.src]
            matching == IF src.status = "FULFILLED" THEN reg.on_fulfilled
                        ELSE reg.on_rejected
        IN  (SettledLater(k) /\ IsFunction(matching)) =>
                /\ CallsOf(k) = << [handler |-> matching, args |-> <<src.result>>] >>
                /\ promises[reg.next].status = "FULFILLED"
                /\ promises[reg.next].result =
                       smash_value_clone(Apply(matching.function, <<src.result>>))

\* C3: with the handler for the outcome absent, the other handler is not
\* invoked and the payload passes through: a rejection leaves the returned
\* promise Rejected with the reason, a fulfilment Fulfilled with the value.
C3_MissingHandlerPassThrough ==
    \A k \in DOMAIN regs :
        LET reg == regs[k]
            src == promises[reg.src]
            matching == IF src.status = "FULFILLED" THEN reg.on_fulfilled
                        ELSE reg.on_rejected
        IN  (SettledLater(k) /\ ~IsFunction(matching)) =>
                /\ CallsOf(k) = <<>>
                /\ promises[reg.next].status = src.status
                /\ promises[reg.next].result = smash_value_clone(src.result)

\* C4: a then call on an already settled source returns a settled promise:
\* Fulfilled with f(v), or with v when f is absent, for a source Fulfilled
\* with v; Fulfilled with r(e), or Rejected with e when r is absent, for a
\* source Rejected with e.
C4_SynchronousFastPath ==
    \A k \in DOMAIN regs :
        LET reg == regs[k]
            next == promises[reg.next]
            matching == IF reg.status = "FULFILLED" THEN reg.on_fulfilled
                        ELSE reg.on_rejected
        IN  reg.status # "PENDING" =>
                IF IsFunction(matching)
                THEN /\ next.status = "FULFILLED"
                     /\ StructEq(next.result, Apply(matching.function, <<reg.payload>>))
                ELSE /\ next.status = reg.status
                     /\ StructEq(next.result, reg.payload)

\* C5: every handler passed to a then/catch call is invoked at most once and
\* every promise a then/catch call returned is settled at most once.
C5_ContinuationsAtMostOnce ==
    \A k \in DOMAIN regs :
        /\ \A h \in {regs[k].on_fulfilled, regs[k].on_rejected} :
              IsFunction(h) =>
                  Cardinality({i \in DOMAIN calls : calls[i].handler = h}) <= 1
        /\ promises[regs[k].next].nwrites <= 1

\* A handler has run, the promise its then call returned is settled, and a
\* later resolve/reject call was made on a settled promise.
C5_Witness ==
    /\ late
    /\ \E k \in DOMAIN regs :
          /\ Len(CallsOf(k)) = 1
          /\ promises[regs[k].next].status # "PENDING"
          /\ regs[k].next \notin direct
          /\ regs[k].status = "PENDING"

-----------------------------------------------------------------------------
(* Properties of the timer and of settlement from two threads (SpecTimer).  *)

\* The smash_set_timeout call made got a Function callback, its worker thread
\* has run to its end, and the caller itself never settled the promise.
TimeoutDone ==
    /\ tcall.kind = "set_timeout"
    /\ tcall.created
    /\ IsFunction(tcall.callback)
    /\ pc["timer"] = "done"
    /\ tcall.promise \notin direct

\* C6: once the worker of set_timeout(cb, delay_ms, argc, args) is through,
\* cb was invoked exactly once, with the caller's arguments when argc > 0 and
\* with the single Number delay_ms otherwise, and the returned promise is
\* Fulfilled with cb's return value.
C6_TimeoutCallbackContract ==
    TimeoutDone =>
        LET expected == IF Len(tcall.args) > 0 THEN tcall.args
                        ELSE <<smash_value_create_number(tcall.delay_ms)>>
        IN  /\ CallsOf(0) = <<[handler |-> tcall.callback, args |-> expected]>>
            /\ promises[tcall.promise].status = "FULFILLED"
            /\ StructEq(promises[tcall.promise].result,
                        Apply(tcall.callback.function, expected))

\* C7: the promise smash_sleep returned, unless the caller settles it itself,
\* is eventually Fulfilled when the timer worker keeps being scheduled.
C7_SleepSettles ==
    (tcall.kind = "sleep" /\ tcall.created)
        ~> (\/ sleepPromise \in direct
            \/ /\ sleepPromise \in DOMAIN promises
               /\ promises[sleepPromise].status = "FULFILLED")

\* C14: when the worker thread of smash_set_timeout cannot be created, the
\* promise returned is Rejected with an Object that carries a message
\* property, the callback is never invoked and no worker exists; the caller
\* goes on running.
C14_ThreadCreationFailure ==
    (tcall # NoOp /\ tcall.kind = "set_timeout" /\ ~tcall.created) =>
        /\ promises[tcall.promise].status = "REJECTED"
        /\ promises[tcall.promise].result.type = "OBJECT"
        /\ PropertyIndex(promises[tcall.promise].result, "message") # 0
        /\ CallsOf(0) = <<>>
        /\ pc["timer"] = "none"
        /\ ~ub

\* C14 without the shape of the rejection reason: Rejected, callback never
\* invoked, no worker.
C14_RejectedWithoutCallback ==
    (tcall # NoOp /\ tcall.kind = "set_timeout" /\ ~tcall.created) =>
        /\ promises[tcall.promise].status = "REJECTED"
        /\ CallsOf(0) = <<>>
        /\ pc["timer"] = "none"

\* The promise structs a value, by content, refers to.
PromiseRefs(value) ==
    IF value # NULL /\ value.type = "PROMISE" THEN {value.promise} ELSE {}

\* The promise structs reachable from the TimerData block of the worker, and
\* those reachable from what the caller passed and was returned.
WorkerReach ==
    {timer.promise} \cup PromiseRefs(timer.callback)
        \cup UNION {PromiseRefs(timer.args[k]) : k \in DOMAIN timer.args}

CallerReach ==
    {tcall.promise} \cup PromiseRefs(tcall.callback)
        \cup UNION {PromiseRefs(tcall.args[k]) : k \in DOMAIN tcall.args}

\* C23: while the worker of a smash_set_timeout call holds its TimerData, no
\* Value reachable from it (promise, callback, args) is reachable from the
\* caller too.
C23_NoValueShared ==
    (tcall # NoOp /\ tcall.kind = "set_timeout" /\ timer # NoTimer) =>
        WorkerReach \cap CallerReach = {}

\* C8: whichever way the steps of the two threads interleave, the status of
\* a promise is written at most once and no handler runs more than once.
C8_ConcurrentFirstWriterWins ==
    /\ \A p \in DOMAIN promises : promises[p].nwrites <= 1
    /\ \A k \in DOMAIN regs :
          \A h \in {regs[k].on_fulfilled, regs[k].on_rejected} :
              IsFunction(h) =>
                  Cardinality({i \in DOMAIN calls : calls[i].handler = h}) <= 1

-----------------------------------------------------------------------------
(* Properties of Values as allocations (SpecHeap).                          *)

\* C9: the Value a clone step returned is structurally equal to the
\* original (same tag, payload, array length and elements, object keys and
\* values) and shares no allocation with it.
C9_CloneEqualAndIndependent ==
    (cloned # NoOp /\ ~heap.ub) =>
        /\ StructEq(Deref(heap, cloned.result), Deref(heap, cloned.value))
        /\ Reach(heap, cloned.result) \cap Reach(heap, cloned.value) = {}

\* C10: no Value stored in a container is an allocation the caller holds or
\* one that another container stores, and no operation finds a freed Value.
C10_NoAliasing ==
    /\ ~heap.ub
    /\ \A c \in DOMAIN heap.cells :
          \A x \in Stored(heap, c) :
              /\ x \notin held
              /\ \A d \in DOMAIN heap.cells \ {c} : x \notin Stored(heap, d)

-----------------------------------------------------------------------------
(* Properties of one array (SpecArray).                                     *)

\* C11: after n pushes onto an array created with any initial capacity,
\* smash_array_length is n and smash_array_get(i) is the i-th pushed
\* element for 0 <= i < n; a get with i < 0 or i >= n returned a Null value
\* and left the array as it was.
C11_ArrayGrowth ==
    arr # NoArray =>
        /\ smash_array_length(heap, arr.array) = [h |-> heap, n |-> Len(pushed)]
        /\ \A i \in 0..(Len(pushed) - 1) :
              LET r == smash_array_get(heap, arr.array, i)
              IN  r.a = pushed[i + 1] /\ r.h = heap
        /\ (got # NoOp /\ (got.index < 0 \/ got.index >= got.size)) =>
              /\ heap.cells[got.result] = [live |-> TRUE, v |-> smash_value_create_null]
              /\ got.after = got.before

\* The array was created with capacity 1 and has grown twice, and the last
\* get was out of range.
C11_Witness ==
    /\ arr # NoArray
    /\ arr.initial_capacity = 1
    /\ Len(pushed) = 3
    /\ heap.cells[arr.array].v.capacity = 4
    /\ got # NoOp
    /\ got.index >= got.size
    /\ got.size = 3

-----------------------------------------------------------------------------
(* Properties of one object (SpecObject).                                   *)

\* The keys of the set calls made, each once, in the order of its first call.
RECURSIVE FirstSetOrder(_)
FirstSetOrder(calls_made) ==
    IF calls_made = <<>> THEN <<>>
    ELSE LET front == FirstSetOrder(SubSeq(calls_made, 1, Len(calls_made) - 1))
             property == calls_made[Len(calls_made)].property
         IN  IF \E i \in DOMAIN front : front[i] = property THEN front
             ELSE Append(front, property)

\* The value of the last set call made for a key.
LatestSet(property) ==
    LET last == CHOOSE i \in DOMAIN sets :
                    /\ sets[i].property = property
                    /\ \A j \in DOMAIN sets : sets[j].property = property => j <= i
    IN  sets[last].value

\* C12: get_keys lists each key set exactly once, in the order the keys were
\* first set (setting a key again neither adds nor moves it, a new key goes
\* to the end), and smash_object_get(key) is the latest value set for key.
C12_ReplaceNotDuplicate ==
    LET keys_array == smash_object_get_keys(record)
        order == FirstSetOrder(sets)
    IN  /\ keys_array.size = Len(order)
        /\ \A i \in DOMAIN order :
              /\ keys_array.elements[i] = smash_value_create_string(order[i])
              /\ StructEq(smash_object_get(record, order[i]), LatestSet(order[i]))

-----------------------------------------------------------------------------
(* Properties of smash_fetch (SpecFetch).                                   *)

\* The value of a property of an object given by content, NULL if absent.
PropertyOf(obj, property) ==
    IF PropertyIndex(obj, property) = 0 THEN NULL
    ELSE obj.properties[PropertyIndex(obj, property)].value

\* C13: the promise smash_fetch returned is Fulfilled when the call returns,
\* and its result is an Object with the properties status (200), statusText,
\* headers and _body, _body being the success body exactly when the URL
\* contains "example.com".
C13_FetchResult ==
    \A k \in DOMAIN fetched :
        LET promise == promises[fetched[k].promise]
            response == promise.result
        IN  /\ promise.status = "FULFILLED"
            /\ response.type = "OBJECT"
            /\ PropertyOf(response, "status") = smash_value_create_number(200)
            /\ PropertyOf(response, "statusText") # NULL
            /\ PropertyOf(response, "headers") # NULL
            /\ PropertyOf(response, "_body") =
                  smash_value_create_string(
                      IF Contains(fetched[k].url, Marker) THEN SuccessBody
                      ELSE ErrorBody)

-----------------------------------------------------------------------------
(* Properties of the regex engine (SpecRegex, FairSpecScan).                *)

\* C15: a call of simple_regex_match or simple_regex_replace with the global
\* flag, for any pattern and text, eventually returns when its loop keeps
\* being stepped.
C15_GlobalScanTerminates ==
    (rx # NoOp /\ rx.regex.global) ~> (rx # NoOp /\ rx.pc = "done")

\* The elements of a pattern from offset k on, in order: a character class
\* up to its ']', an escape with its character, a dot or a literal.
RECURSIVE PatternElems(_, _)
PatternElems(pattern, k) ==
    IF k >= Len(pattern) THEN <<>>
    ELSE IF pattern[k + 1] = "["
    THEN LET close == ClassEnd(pattern, k + 1)
         IN  <<[kind |-> "class", text |-> SubSeq(pattern, k + 1, close + 1)]>>
             \o PatternElems(pattern, close + 1)
    ELSE IF pattern[k + 1] = "\\"
    THEN <<[kind |-> "escape", text |-> SubSeq(pattern, k + 1, k + 2)]>>
         \o PatternElems(pattern, k + 2)
    ELSE <<[kind |-> IF pattern[k + 1] = "." THEN "dot" ELSE "literal",
            text |-> SubSeq(pattern, k + 1, k + 1)]>>
         \o PatternElems(pattern, k + 1)

\* The text character c matches the pattern element.
ElemMatches(elem, c, case_insensitive) ==
    CASE elem.kind = "class" ->
             LET negate == CharAt(elem.text, 1) = "^"
                 body == IF negate THEN 2 ELSE 1
                 inside == ClassScan(elem.text, body, c, case_insensitive).matched
             IN  /\ CharAt(elem.text, body) # "]"
                 /\ CharAt(elem.text, Len(elem.text) - 1) = "]"
                 /\ inside # negate
      [] elem.kind = "escape" ->
             CASE CharAt(elem.text, 1) = NUL -> FALSE
               [] CharAt(elem.text, 1) = "d" -> isdigit(Ascii[c])
               [] CharAt(elem.text, 1) = "w" -> is_word_char(c)
               [] CharAt(elem.text, 1) = "s" -> isspace(Ascii[c])
               [] OTHER -> char_matches(c, CharAt(elem.text, 1), case_insensitive)
      [] elem.kind = "dot" -> TRUE
      [] OTHER -> char_matches(c, elem.text[1], case_insensitive)

\* Every element, in order, matches the consecutive characters of str from
\* offset s on.
RECURSIVE WholeMatch(_, _, _, _)
WholeMatch(elems, str, s, case_insensitive) ==
    IF elems = <<>> THEN TRUE
    ELSE /\ s < Len(str)
         /\ ElemMatches(Head(elems), str[s + 1], case_insensitive)
         /\ WholeMatch(Tail(elems), str, s + 1, case_insensitive)

\* C16: when match_pattern succeeded at a text offset, every element of the
\* pattern, in order, matches the consecutive text characters from that
\* offset on; none is skipped.
C16_WholePatternMatch ==
    (rx # NoOp /\ rx.tried >= 0 /\ rx.found) =>
        WholeMatch(PatternElems(rx.regex.pattern, 0), rx.str, rx.tried,
                   rx.regex.case_insensitive)

\* C16 for the patterns in which no element follows a character class and no
\* read left the pattern.
C16_WithoutClassSuccessor ==
    (rx # NoOp /\ rx.tried >= 0 /\ rx.found /\ ~rx.ub) =>
        \/ \E k \in 1..(Len(rx.regex.pattern) - 1) : rx.regex.pattern[k] = "]"
        \/ WholeMatch(PatternElems(rx.regex.pattern, 0), rx.str, rx.tried,
                      rx.regex.case_insensitive)

\* A literal pattern: not empty, and no character of it is special to the
\* engine.
IsLiteral(pattern) ==
    /\ pattern # <<>>
    /\ \A k \in DOMAIN pattern : pattern[k] \notin {"[", "]", "\\", ".", "+", "^", "/"}

\* The literal P occurs in str at offset s.
OccursAt(P, str, s, case_insensitive) ==
    /\ s + Len(P) <= Len(str)
    /\ \A k \in 1..Len(P) : char_matches(str[s + k], P[k], case_insensitive)

\* The offsets at which the literal P occurs in str.
Occurrences(P, str, case_insensitive) ==
    {s \in 0..Len(str) : OccursAt(P, str, s, case_insensitive)}

\* The least element of a non-empty set of numbers.
Least(S) == CHOOSE s \in S : \A t \in S : s <= t

\* The text of the leftmost occurrence of P in str.
Leftmost(P, str, case_insensitive) ==
    LET s == Least(Occurrences(P, str, case_insensitive))
    IN  SubSeq(str, s + 1, s + Len(P))

\* smash_string_match has returned from a call without the global flag for
\* a literal pattern that occurs in the text.
LiteralMatchDone ==
    /\ rx # NoOp /\ rx.kind = "match" /\ rx.via = "string" /\ rx.pc = "done"
    /\ ~rx.regex.global
    /\ IsLiteral(rx.regex.pattern)
    /\ Occurrences(rx.regex.pattern, rx.str, rx.regex.case_insensitive) # {}

\* C17: for a literal pattern P that occurs in the text, smash_string_match
\* without the global flag returns the leftmost occurrence and nothing else,
\* rendered as a bracketed list of one double-quoted string: ["P"].
C17_LiteralMatchResult ==
    LiteralMatchDone =>
        CString(rx.result) =
            <<"[", "\"">>
            \o Leftmost(rx.regex.pattern, rx.str, rx.regex.case_insensitive)
            \o <<"\"", "]">>

\* C17 without the rendering: the string returned is the text of the
\* leftmost occurrence.
C17_LeftmostOccurrence ==
    LiteralMatchDone =>
        CString(rx.result) =
            Leftmost(rx.regex.pattern, rx.str, rx.regex.case_insensitive)

\* A pattern of the form [class]+ : one character class and a plus sign.
IsClassPlus(pattern) ==
    /\ Len(pattern) >= 4
    /\ pattern[1] = "["
    /\ pattern[Len(pattern)] = "+"
    /\ pattern[Len(pattern) - 1] = "]"
    /\ ClassEnd(pattern, 1) = Len(pattern) - 2

\* The character at offset s of str is in the class of the pattern [class]+.
InClass(pattern, str, s, case_insensitive) ==
    /\ s < Len(str)
    /\ ElemMatches(PatternElems(pattern, 0)[1], str[s + 1], case_insensitive)

\* The end of the maximal run of class characters that starts at offset s.
RECURSIVE RunEnd(_, _, _, _)
RunEnd(pattern, str, s, case_insensitive) ==
    IF InClass(pattern, str, s, case_insensitive)
    THEN RunEnd(pattern, str, s + 1, case_insensitive)
    ELSE s

\* The maximal runs of class characters of str from offset s on, in order.
RECURSIVE Runs(_, _, _, _)
Runs(pattern, str, s, case_insensitive) ==
    IF s >= Len(str) THEN <<>>
    ELSE IF InClass(pattern, str, s, case_insensitive)
    THEN LET e == RunEnd(pattern, str, s, case_insensitive)
         IN  <<SubSeq(str, s + 1, e)>> \o Runs(pattern, str, e, case_insensitive)
    ELSE Runs(pattern, str, s + 1, case_insensitive)

\* The strings of a sequence joined by commas.
RECURSIVE Joined(_)
Joined(strings) ==
    IF strings = <<>> THEN <<>>
    ELSE IF Len(strings) = 1 THEN strings[1]
    ELSE strings[1] \o <<",">> \o Joined(Tail(strings))

RECURSIVE Replaced(_, _, _, _, _, _)
Replaced(P, str, s, replacement, global, case_insensitive) ==
    IF s >= Len(str) THEN <<>>
    ELSE IF OccursAt(P, str, s, case_insensitive)
    THEN replacement
         \o (IF global
             THEN Replaced(P, str, s + Len(P), replacement, global,
                           case_insensitive)
             ELSE SubSeq(str, s + Len(P) + 1, Len(str)))
    ELSE <<str[s + 1]>>
         \o Replaced(P, str, s + 1, replacement, global, case_insensitive)

\* A call of simple_regex_replace with a literal pattern has returned a
\* string: neither malloc nor realloc returned NULL for lack of memory.
ReplacedLiteral ==
    /\ rx # NoOp /\ rx.kind = "replace" /\ rx.pc = "done"
    /\ IsLiteral(rx.regex.pattern)
    /\ ~rx.failed

\* C19: for a literal pattern P, simple_regex_replace with the global flag
\* replaces every non-overlapping occurrence of P, left to right, by the
\* replacement and copies the rest of the text; without the flag it replaces
\* the leftmost occurrence only; when P does not occur the result is the
\* text. The result is a string the function built inside its buffer.
C19_ReplaceScope ==
    ReplacedLiteral =>
        /\ ~rx.overflow
        /\ CString(rx.result) =
              Replaced(rx.regex.pattern, rx.str, 0, rx.replacement,
                       rx.regex.global, rx.regex.case_insensitive)
        /\ Occurrences(rx.regex.pattern, rx.str, rx.regex.case_insensitive) = {}
              => CString(rx.result) = rx.str

\* C19 for the texts of one character or more: there the replacement is as
\* the claim says and every write is inside the buffer.
C19_ReplaceScopeOfText ==
    (ReplacedLiteral /\ rx.str # <<>>) =>
        /\ ~rx.overflow
        /\ CString(rx.result) =
              Replaced(rx.regex.pattern, rx.str, 0, rx.replacement,
                       rx.regex.global, rx.regex.case_insensitive)

\* C19 for the empty text: simple_regex_replace returns no string, or one
\* it wrote outside its buffer.
C19_EmptyText ==
    (rx # NoOp /\ rx.kind = "replace" /\ rx.pc = "done" /\ rx.str = <<>>) =>
        rx.failed \/ rx.overflow

\* A global replace of "a" by "aX" in "a1a" has returned "aX1aX".
C19_Witness ==
    /\ rx # NoOp /\ rx.kind = "replace" /\ rx.pc = "done"
    /\ rx.regex.pattern = <<"a">>
    /\ rx.regex.global
    /\ rx.str = <<"a", "1", "a">>
    /\ rx.replacement = <<"a", "X">>
    /\ rx.result = <<"a", "X", "1", "a", "X">>

\* A replace of "a" without the global flag in a text with two occurrences
\* has returned.
C19_WitnessLeftmost ==
    /\ rx # NoOp /\ rx.kind = "replace" /\ rx.pc = "done"
    /\ rx.regex.pattern = <<"a">>
    /\ ~rx.regex.global
    /\ rx.str = <<"a", "1", "a">>
    /\ rx.result = <<"a", "X", "1", "a">>

\* The pattern argument of smash_string_match or smash_string_replace has a
\* /flags suffix: a '/' that is not its first character.
HasSuffix(argument) ==
    \E k \in 2..Len(argument) : argument[k] = "/"

\* The characters after the last '/' of the argument.
SuffixOf(argument) ==
    LET last == CHOOSE k \in 2..Len(argument) :
                    /\ argument[k] = "/"
                    /\ \A l \in (k + 1)..Len(argument) : argument[l] # "/"
    IN  SubSeq(argument, last + 1, Len(argument))

C20_WitnessMatch ==
    /\ rx # NoOp /\ rx.via = "string" /\ rx.kind = "match" /\ rx.pc = "done"
    /\ rx.pattern = <<"a">>
    /\ rx.str = <<"a", "1", "a">>
    /\ rx.result = <<"a">>

-----------------------------------------------------------------------------
(* Properties of truthiness (SpecTruthy).                                   *)

\* C21: smash_value_is_truthy is false for Null, Undefined, Boolean false,
\* Number 0, the empty String and the empty Array, and true for every
\* Object, non-empty String, non-empty Array, nonzero Number and Boolean
\* true.
C21_TruthinessTable ==
    (truth # NoOp /\ truth.kind = "is_truthy" /\ truth.value # NULL) =>
        LET value == truth.value
        IN  /\ value.type \in {"NULL", "UNDEFINED"} => ~truth.result
            /\ value.type = "BOOLEAN" => truth.result = value.boolean
            /\ value.type = "NUMBER" => truth.result = (value.number # 0)
            /\ value.type = "STRING" => truth.result = (value.string # "")
            /\ value.type = "ARRAY" => truth.result = (value.size # 0)
            /\ value.type = "OBJECT" => truth.result

\* smash_value_is_truthy has been called on a non-empty array of falsy
\* elements.
C21_Witness ==
    /\ truth # NoOp /\ truth.kind = "is_truthy"
    /\ truth.value = ArrayOf(<<smash_value_create_number(0)>>)
    /\ truth.result

\* C22: smash_value_is_truthy is true for every Function and Promise value,
\* and smash_value_logical_not gives Boolean false for them.
C22_FunctionAndPromiseTruthy ==
    (truth # NoOp /\ truth.value # NULL
        /\ truth.value.type \in {"FUNCTION", "PROMISE"}) =>
        /\ truth.kind = "is_truthy" => truth.result
        /\ truth.kind = "logical_not" =>
              truth.result = smash_value_create_boolean(FALSE)

-----------------------------------------------------------------------------
(* Properties of the continuation slot.                                    *)

\* The k-th then/catch call is the last one made on its source while the
\* source was pending, an earlier call j was made on the same pending source,
\* and the source has settled since.
LastOfTwo(j, k) ==
    /\ j < k
    /\ regs[j].src = regs[k].src
    /\ regs[j].status = "PENDING"
    /\ regs[k].status = "PENDING"
    /\ ~Overwritten(k)
    /\ promises[regs[k].src].status # "PENDING"

\* C24: when then is called twice on one still-pending promise, the second
\* call replaces the continuation data of the first: once the promise has
\* settled, no handler of the earlier call has run, every handler run by the
\* settlement belongs to the last call, the promise the last call returned is
\* settled, and the promise the earlier call returned is still pending in
\* every later state (unless the caller settles it itself).
C24_SingleSlotOverwrite ==
    \A j \in DOMAIN regs, k \in DOMAIN regs :
        LastOfTwo(j, k) =>
            /\ CallsOf(j) = <<>>
            /\ \A c \in DOMAIN calls :
                   LET reg == calls[c].handler.reg
                   IN  (regs[reg].src = regs[k].src /\ regs[reg].status = "PENDING")
                           => reg = k
            /\ promises[regs[k].next].status # "PENDING"
            /\ regs[j].next \notin direct =>
                   promises[regs[j].next].status = "PENDING"

\* Two then calls with handlers on one pending promise, the promise settled,
\* a handler of the second call has run.
C24_Witness ==
    \E j \in DOMAIN regs, k \in DOMAIN regs :
        /\ LastOfTwo(j, k)
        /\ IsFunction(regs[j].on_fulfilled)
        /\ IsFunction(regs[j].on_rejected)
        /\ CallsOf(k) # <<>>
        /\ regs[j].next \notin direct
        /\ promises[regs[j].next].status = "PENDING"

-----------------------------------------------------------------------------
(* Properties of the array's capacity (SpecArray).                          *)

\* The SmashArray struct of the array created.
TheArray == heap.cells[arr.array].v

\* 0 <= size <= capacity, and before the first push the capacity is the one
\* asked for, or 4 when none or a non-positive one was asked for.
CapacityBounds ==
    arr # NoArray =>
        /\ 0 <= TheArray.size
        /\ TheArray.size <= TheArray.capacity
        /\ pushed = <<>> =>
               TheArray.capacity =
                   IF arr.initial_capacity > 0 THEN arr.initial_capacity ELSE 4

\* A step on the created array changes the capacity only by doubling it, and
\* a push doubles it exactly when it finds size = capacity.
CapacityStep ==
    (arr # NoArray /\ arr' # NoArray) =>
        LET before == heap.cells[arr.array].v
            after == heap'.cells[arr.array].v
        IN  /\ after.capacity # before.capacity =>
                   /\ pushed' # pushed
                   /\ before.size = before.capacity
                   /\ after.capacity = 2 * before.capacity
            /\ (pushed' # pushed /\ before.size = before.capacity) =>
                   after.capacity = 2 * before.capacity

\* C25: in every state reached by smash_value_create_array and any pushes,
\* 0 <= size <= capacity; the capacity starts at the requested one (4 when
\* the request is <= 0) and changes only by doubling, exactly when a push
\* finds size = capacity.
C25_CapacityInvariant == []CapacityBounds /\ [][CapacityStep]_vars

\* The array was created with capacity 2, is full after two pushes, and the
\* third push has doubled the capacity.
C25_Witness ==
    /\ arr # NoArray
    /\ arr.initial_capacity = 2
    /\ Len(pushed) = 3
    /\ TheArray.size = 3
    /\ TheArray.capacity = 4

-----------------------------------------------------------------------------
(* Properties of then racing with the timer worker (FairSpecTimer).         *)

\* The caller has called smash_promise_then, with a fulfilment handler, on
\* the promise smash_set_timeout returned, whose worker thread was created.
ThenOnTimerPromise ==
    /\ tcall.kind = "set_timeout"
    /\ tcall.created
    /\ regs # <<>>
    /\ regs[1].src = tcall.promise
    /\ IsFunction(regs[1].on_fulfilled)

\* The handler has been invoked once and the promise then returned is settled.
ContinuationRan ==
    /\ Len(CallsOf(1)) = 1
    /\ promises[regs[1].next].status # "PENDING"

\* C26: when the caller calls then on the promise of smash_set_timeout while
\* the worker resolves it, then however their steps interleave the handler
\* is eventually invoked, exactly once, and the promise then returned is
\* eventually settled (unless the caller settles a promise itself).
C26_NoLostContinuation ==
    /\ []((ThenOnTimerPromise /\ direct = {}) => Len(CallsOf(1)) <= 1)
    /\ ThenOnTimerPromise ~> (ContinuationRan \/ direct # {})

-----------------------------------------------------------------------------
(* Properties of the order of registration and settlement (SpecPromise).    *)

\* What the k-th then call would have given had it been made after its
\* source settled: the call is made on a promise with the source's status
\* and result.
ThenAfterSettlement(k) ==
    LET settled == [NewPromise EXCEPT !.status = promises[regs[k].src].status,
                                      !.result = promises[regs[k].src].result]
        st == [EmptyState EXCEPT !.promises = <<settled>>]
    IN  smash_promise_then(st, 1, regs[k].on_fulfilled, regs[k].on_rejected)

\* The handlers a log of calls holds.
Invoked(log) == {log[i].handler : i \in DOMAIN log}

\* C27: for one then(p, f, r) call, every outcome of p and every combination
\* of handlers, the status and result of the promise then returned and the
\* handlers invoked are the same when then is called before p settles as
\* when it is called after.
C27_RegistrationOrderIrrelevant ==
    \A k \in DOMAIN regs :
        SettledLater(k) =>
            LET after == ThenAfterSettlement(k)
                next == promises[regs[k].next]
            IN  /\ next.status = after.promises[2].status
                /\ next.result = after.promises[2].result
                /\ Invoked(CallsOf(k)) = Invoked(after.calls)

-----------------------------------------------------------------------------
(* Properties of the buffers of the regex engine (SpecRegex).               *)

\* C28: for every pattern and text, match_pattern_with_len keeps its pattern
\* cursor within the pattern and its terminating NUL and reads no byte
\* beyond it, also for a pattern that ends with a character class and for
\* the pattern without its trailing '+'. (No pattern checked holds \b, so
\* every read outside a buffer is a read through the pattern cursor.)
C28_PatternCursorInBounds ==
    rx # NoOp => ~rx.oob

\* A smash_string_replace call has returned.
StringReplaceDone ==
    rx # NoOp /\ rx.kind = "replace" /\ rx.via = "string" /\ rx.pc = "done"

\* C29: on every path of smash_string_replace, free(flags) is called exactly
\* when the flags buffer was newly allocated to add 'g'; it is not called
\* when flags is the literal "g" or points into pattern_copy, which is
\* freed before.
C29_FlagsBufferOwnership ==
    StringReplaceDone => (rx.flags_freed <=> rx.flags_in = "malloc")

\* C30: in simple_regex_match, for every text length, match length and
\* number of matches, each write stays inside the result buffer: the resize
\* step leaves room for the separator, the match and the NUL (result_len +
\* match_len + 2 <= result_capacity) before they are copied.
C30_ResultBufferBound ==
    res # NoOp => ~res.ub

====
